--------------------------- MODULE MCCommentSync ---------------------------
(* Model-checking instance of CommentSync.                                 *)
EXTENDS CommentSync
=============================================================================
