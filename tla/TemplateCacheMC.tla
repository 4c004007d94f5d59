--------------------------- MODULE TemplateCacheMC ---------------------------
(***************************************************************************)
(* An instance of TemplateCache for TLC: one template that comes and goes, *)
(* and two threads.                                                        *)
(***************************************************************************)
EXTENDS TemplateCache, TLC

CONSTANTS n1, t1, t2

AllOps     == {"default", "list"}
AllChanges == {"save", "rename", "delete", "default"}
=============================================================================
