-------------------------- MODULE MCEditorAnalysis --------------------------
EXTENDS EditorAnalysis
=============================================================================
