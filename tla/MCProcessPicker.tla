-------------------------- MODULE MCProcessPicker --------------------------
(* A limit of one is reached by a name, a path, and a rule beyond it        *)
EXTENDS ProcessPicker

MCExeOf == [pa |-> "a"]
MCSelections == {{}, {"b", "pa"}}
MCSnapshots == {{"a"}, {"a", "b"}}
MCTexts == {{"a", "b"}, {"a"}}
=============================================================================
