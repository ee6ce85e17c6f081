--------------------------- MODULE MCEditorRuntime ---------------------------
EXTENDS EditorRuntime
=============================================================================
