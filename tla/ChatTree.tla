------------------------------ MODULE ChatTree ------------------------------
(***************************************************************************)
(* The message tree of one chat thread, as chat_tree_service walks it.  A  *)
(* thread is a sequence of rows in the order of created_at, which the      *)
(* database takes from clock_timestamp() when the row is flushed; the      *)
(* place of a row is its id.  A row is visible once its transaction has    *)
(* committed.  Every operator takes the rows it looks at, so that the      *)
(* modules of the chats that share the tree can use it on their own state. *)
(***************************************************************************)
EXTENDS Naturals, Sequences, FiniteSets, FiniteSetsExt

NoRow == 0
Roles == {"user", "assistant", "tool_call", "tool_result"}

VisibleRows(rows) == {k \in DOMAIN rows : rows[k].visible}

Children(rows, m) == {k \in VisibleRows(rows) : rows[k].parent = m}

\* The rows that share the parent of m, m among them.
Siblings(rows, m) == Children(rows, rows[m].parent)

\* The ids from the root to m, both included.
BranchUpTo(rows, m) ==
  LET upTo[k \in 0..Len(rows)] ==
        IF k = NoRow THEN <<>> ELSE Append(upTo[rows[k].parent], k)
  IN upTo[m]

\* From m the latest child at each fork, until a row without children.
LeafOfBranch(rows, m) ==
  LET below[k \in DOMAIN rows] ==
        IF Children(rows, k) = {} THEN k ELSE below[Max(Children(rows, k))]
  IN below[m]

\* set_active_leaf refuses a row the session cannot see in the thread.
MayBeLeaf(rows, m) == m \in VisibleRows(rows)

=============================================================================
