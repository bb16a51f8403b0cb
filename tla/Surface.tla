------------------------------- MODULE Surface -------------------------------
(***************************************************************************)
(* The methods of the engine and how they reach it (server.py, protocol.py *)
(* and solidifai_mcp/server.py): the table of handlers, the classes the    *)
(* server treats differently, what a client has to negotiate, and the      *)
(* methods the tools of the agents' bridge forward to.                     *)
(***************************************************************************)
EXTENDS Naturals, FiniteSets

-----------------------------------------------------------------------------
\* protocol.py
MinProtocol == 12
Protocol == 13
Capabilities ==
  {"build_brief_v2", "conformance", "readiness", "publication_metadata", "strict_export",
   "operations"}

Compatible(hello) == hello.protocol \in MinProtocol .. Protocol
Enabled(hello) == IF Compatible(hello) THEN Capabilities \cap hello.capabilities ELSE {}

-----------------------------------------------------------------------------
\* server.py: answered by the connection's own thread, from the last publication or from disk.
ParentReads ==
  {"get_protocol_info", "get_engine_capabilities", "assess_design_plan", "ping",
   "get_build_brief", "get_model_info", "get_params", "list_materials",
   "get_manufacturing_profile", "lookup_standard", "lookup_reference", "report_issue"}

\* Of the published model; the others are answers that need none.
PublishedReads == {"get_model_info", "get_params"}

ParentWriters == {"set_manufacturing_profile", "save_reference"}
OperationMethods == {"submit_operation", "get_operation", "cancel_operation"}

AsyncMethods ==
  {"execute_script", "run_file", "render", "set_requirements", "propose_build",
   "update_build_brief", "sweep", "optimize", "check_motion", "import_reference",
   "stage_import", "remove_import", "create_drawing", "set_feature", "set_params", "export",
   "capture_views", "converge_to_spec", "set_skeleton", "set_part", "export_flat_model",
   "attach", "set_occurrences", "set_inputs", "remove_part", "add_subassembly", "build_part",
   "begin_round", "end_round", "abort_round"}

\* What else the session does for a call, one at a time.
SessionMethods ==
  {"inspect_features", "check_interferences", "analyze_dfm", "measure", "measure_between",
   "query_faces", "thickness_at", "stress_check", "tolerance_stack", "get_workspace_meta",
   "set_workspace_meta", "set_workspace_name", "dismiss_proposed_name", "check_requirements",
   "get_conformance", "get_readiness", "analyze_import", "diff_against", "build_report",
   "import_capabilities", "list_imports", "feature_at", "set_part_material", "undo", "redo",
   "goto", "history", "checkpoint", "fab_detect", "fab_profiles", "fab_estimate",
   "fab_orient", "fab_open", "list_destinations", "set_destinations", "get_part_info",
   "get_assembly_tree", "check_interfaces"}

Handlers == ParentReads \cup ParentWriters \cup OperationMethods \cup AsyncMethods \cup SessionMethods

\* The ones that answer with a build, and the ones the readiness of a build depends on.
Builders ==
  {"execute_script", "run_file", "render", "set_params", "set_feature", "set_part_material",
   "import_reference", "remove_import", "undo", "redo", "goto", "set_skeleton", "set_part",
   "attach", "set_occurrences", "set_inputs", "remove_part", "add_subassembly", "build_part",
   "end_round", "converge_to_spec"}
GoalSetters == {"set_requirements", "propose_build", "update_build_brief", "set_manufacturing_profile"}

Kind(method) ==
  CASE method \in PublishedReads -> "read"
    [] method \in ParentReads \ PublishedReads -> "lookup"
    [] method \in Builders -> "build"
    [] method \in GoalSetters -> "goals"
    [] method = "export" -> "export"
    [] method = "fab_open" -> "slice"
    [] OTHER -> "other"

-----------------------------------------------------------------------------
\* solidifai_mcp/server.py, in its order.
ModelTools ==
  {"get_engine_capabilities", "assess_design_plan", "execute_script", "run_file", "set_params",
   "get_params", "get_model_info", "get_operation", "submit_operation", "cancel_operation"}
LibraryTools ==
  {"list_materials", "get_manufacturing_profile", "set_manufacturing_profile",
   "lookup_standard", "lookup_reference", "save_reference", "report_issue"}
InspectionTools ==
  {"inspect_features", "check_interferences", "analyze_dfm", "measure", "measure_between",
   "query_faces", "thickness_at", "stress_check", "tolerance_stack"}
GoalTools ==
  {"get_workspace_meta", "set_workspace_meta", "set_requirements", "check_requirements",
   "propose_build", "get_build_brief", "get_conformance", "get_readiness", "update_build_brief",
   "converge_to_spec"}
StudyTools ==
  {"sweep", "optimize", "check_motion", "diff_against", "build_report", "analyze_import",
   "import_reference", "stage_import", "import_capabilities", "list_imports", "remove_import"}
OutputTools == {"create_drawing", "set_feature", "feature_at", "render", "export", "capture_views"}
HistoryTools ==
  {"history", "undo", "redo", "checkpoint", "goto", "fab_detect", "fab_profiles",
   "fab_estimate", "fab_orient", "fab_open"}
AssemblyTools ==
  {"set_skeleton", "set_part", "get_assembly_tree", "get_part_info", "attach",
   "set_occurrences", "set_inputs", "remove_part", "add_subassembly", "build_part",
   "begin_round", "end_round", "abort_round", "export_flat_model", "check_interfaces"}

Tools ==
  ModelTools \cup LibraryTools \cup InspectionTools \cup GoalTools \cup StudyTools
  \cup OutputTools \cup HistoryTools \cup AssemblyTools

\* Every call of the bridge says this of itself.
BridgeHello == [protocol |-> Protocol, capabilities |-> Capabilities]

\* rpc.rs: the host does not ask for the metadata of publications.
HostHello == [protocol |-> Protocol, capabilities |-> Capabilities \ {"publication_metadata"}]

\* A client that says nothing of itself.
SilentHello == [protocol |-> MinProtocol, capabilities |-> {}]
=============================================================================
