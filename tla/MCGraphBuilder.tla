--------------------------- MODULE MCGraphBuilder ---------------------------
(***************************************************************************)
(* Instances of GraphBuilder: three classes beside the root.               *)
(***************************************************************************)
EXTENDS GraphBuilder

\* A node, or a child of any class, of the root or of none.
MCPlacements ==
  {[kind |-> "node-on-parent", parent |-> NoParent]}
  \union {[kind |-> "child-of-parent", parent |-> p] : p \in Classes \union {Root, NoParent}}

Instance(c, i) == [class |-> c, id |-> i]
AnyClass == Classes \union {Root, Unknown}

\* Up to three instances, the first one a root, their ids distinct or not; and
\* a manifest without any.
MCManifests ==
  {<<>>, <<Instance(Root, 1)>>}
  \union {<<Instance(Root, 1), Instance(c, i)>> : c \in AnyClass, i \in 1 .. 2}
  \union {<<Instance(Root, 1), Instance(c, i), Instance(d, j)>> :
            c \in AnyClass, d \in AnyClass, i \in 1 .. 2, j \in 1 .. 3}
=============================================================================
