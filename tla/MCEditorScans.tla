---------------------------- MODULE MCEditorScans ----------------------------
(* Two files that are saved one after the other.                            *)
EXTENDS EditorScans

=============================================================================
