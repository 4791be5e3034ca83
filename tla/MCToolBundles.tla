--------------------------- MODULE MCToolBundles ---------------------------
(***************************************************************************)
(* A small instance of ToolBundles: two good bundles that share an id, one     *)
(* whose last tool is refused, and a tool of the program.                    *)
(***************************************************************************)
EXTENDS ToolBundles, TLC

CONSTANTS echo, find, sum, post, b1, b2, b3

Tool(id, scope) == [id |-> id, scope |-> scope]

MCManifest ==
    b1 :> <<Tool(find, "read"), Tool(sum, "read")>> @@
    b2 :> <<Tool(sum, "read")>> @@
    b3 :> <<Tool(find, "read"), Tool(sum, "read"), Tool(post, " write ")>>
=============================================================================
