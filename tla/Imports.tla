------------------------------- MODULE Imports -------------------------------
(***************************************************************************)
(* Imported CAD files (import_manager.py, imports_manifest.py,             *)
(* import_adapters.py): the copy below assets/, the entry in imports.json  *)
(* and what a build makes of the entries.  A file name is a stem, the      *)
(* suffix -n that keeps two apart being a number of its own, 0 for none.   *)
(***************************************************************************)
EXTENDS Selection

CONSTANTS
  Cad,    \* Cad[stem]: the adapter's role for a file, "none" without an adapter
  Broken  \* stems of files whose loader raises or gives a null shape

ASSUME ImportsAssumption ==
  /\ Broken \subseteq DOMAIN Cad
  /\ \A stem \in DOMAIN Cad :
       Cad[stem] \in {"modifiable_solid", "reference_mesh", "sketch", "none"}

Files == (DOMAIN Cad) \X Nat
ImportEntries == [id : Files, path : Files, required : BOOLEAN]

\* _dedupe_dest, and the ids of imports_manifest.add: the first that is free.
Apart(stem, used) ==
  <<stem, CHOOSE n \in 0 .. Cardinality(used) :
            <<stem, n>> \notin used /\ \A m \in 0 .. n - 1 : <<stem, m>> \in used>>

\* import_reference turns a sketch away, and a file no adapter reads.
CanRefer(stem) == Cad[stem] \notin {"sketch", "none"}

\* stage_import: any file that an adapter reads.
Staged(assets, stem) == assets \cup {Apart(stem, assets)}

\* imports_manifest.add: the entry that was staged last, the call naming it by
\* its stem.
Added(imports, assets, stem, required) ==
  Append(imports, [id |-> Apart(stem, {imports[i].id : i \in DOMAIN imports}),
                   path |-> Apart(stem, assets), required |-> required])

\* imports_manifest.remove; the file stays in assets/.
Removed(imports, id) == Kept(imports, {e \in ToSet(imports) : e.id # id})

\* _apply_references: an entry that does not load is passed over, and recorded.
Loaded(e) == e.path[1] \notin Broken
References(imports) == Kept(imports, {e \in ToSet(imports) : Loaded(e)})
StatusOf(imports) ==
  {[id |-> imports[i].id, required |-> imports[i].required,
    status |-> IF Loaded(imports[i]) THEN "loaded" ELSE "failed"] : i \in DOMAIN imports}
=============================================================================
