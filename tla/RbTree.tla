------------------------------- MODULE RbTree -------------------------------
(***************************************************************************)
(* Red-black trees, lib/base/src/rbtree.c with rbree_augmented.h: trees    *)
(* with a cached leftmost node and an augmented value.  The code writes    *)
(* every rebalancing case twice, once per side; here s is the side, 0 for  *)
(* rb_left and 1 for rb_right, and one text serves both.                   *)
(*                                                                         *)
(* A tree is [root, leftmost, n]; a node is [p, black, kid, aug], 0 stands *)
(* for NULL.  The nodes are numbers: the keys, and for the keys that may   *)
(* be replaced a second node key + Spare.  The user of the tree searches   *)
(* the place of a new node and supplies the augmented value, here the size *)
(* of the subtree.                                                         *)
(***************************************************************************)
EXTENDS Integers, FiniteSets, Sequences, FiniteSetsExt

(* Bind(v, LAMBDA x : e) is LET x == v IN e, with v evaluated once.        *)
Bind(v, Op(_)) == Op(v)

CONSTANTS Keys,       \* the keys, positive
          Replaceable \* the keys whose node may be replaced by another

VARIABLE rb

Spare == Max(Keys)
Nodes == Keys \cup {k + Spare : k \in Replaceable}
Key(n) == IF n > Spare THEN n - Spare ELSE n
Unlinked == [p |-> 0, black |-> FALSE, kid |-> [s \in {0, 1} |-> 0], aug |-> 0]

Par(t, n)    == t.n[n].p
Kid(t, n, s) == t.n[n].kid[s]
Red(t, n)    == n # 0 /\ ~t.n[n].black

SetKid(t, n, s, c)   == [t EXCEPT !.n[n].kid[s] = c]
SetParent(t, n, p)   == IF n = 0 THEN t ELSE [t EXCEPT !.n[n].p = p]
SetPC(t, n, p, black) == IF n = 0 THEN t ELSE [t EXCEPT !.n[n].p = p, !.n[n].black = black]

ChangeChild(t, old, new, parent) ==
    IF parent = 0 THEN [t EXCEPT !.root = new]
    ELSE SetKid(t, parent, IF Kid(t, parent, 0) = old THEN 0 ELSE 1, new)

RotateSetParents(t, old, new, black) ==
    LET parent == Par(t, old)
        u == SetPC(t, new, parent, t.n[old].black)
    IN  ChangeChild(SetPC(u, old, new, black), old, new, parent)

(* The callbacks of RB_DECLARE_CALLBACKS.                                  *)
Aug(t, n) == IF n = 0 THEN 0 ELSE t.n[n].aug
Compute(t, n) == 1 + Aug(t, Kid(t, n, 0)) + Aug(t, Kid(t, n, 1))
RECURSIVE Propagate(_, _, _)
Propagate(t, n, stop) ==
    IF n = stop \/ t.n[n].aug = Compute(t, n) THEN t
    ELSE Propagate([t EXCEPT !.n[n].aug = Compute(t, n)], Par(t, n), stop)
Copy(t, old, new) == [t EXCEPT !.n[new].aug = t.n[old].aug]
Rotate(t, old, new) ==
    LET u == Copy(t, old, new) IN [u EXCEPT !.n[old].aug = Compute(u, old)]

-----------------------------------------------------------------------------
(* __rb_insert, after rb_link_node.                                        *)
TurnUnder(t, node, parent, s) ==
    LET tmp == Kid(t, node, s)
        u == SetKid(SetKid(t, parent, 1 - s, tmp), node, s, parent)
    IN  Rotate(SetPC(SetPC(u, tmp, parent, TRUE), parent, node, FALSE), parent, node)

TurnOver(t, parent, g, s) ==
    LET tmp == Kid(t, parent, 1 - s)
        u == SetKid(SetKid(t, g, s, tmp), parent, 1 - s, g)
    IN  Rotate(RotateSetParents(SetPC(u, tmp, g, TRUE), g, parent, FALSE), g, parent)

RECURSIVE InsertColor(_, _, _)
InsertColor(t, node, parent) ==
    IF parent = 0 THEN SetPC(t, node, 0, TRUE)
    ELSE IF ~Red(t, parent) THEN t
    ELSE LET g == Par(t, parent)
             s == IF parent # Kid(t, g, 1) THEN 0 ELSE 1
             uncle == Kid(t, g, 1 - s)
         IN  IF Red(t, uncle)
             THEN InsertColor(SetPC(SetPC(SetPC(t, uncle, g, TRUE), parent, g, TRUE),
                                    g, Par(t, g), FALSE),
                              g, Par(t, g))
             ELSE IF node = Kid(t, parent, 1 - s)
             THEN TurnOver(TurnUnder(t, node, parent, s), node, g, s)
             ELSE TurnOver(t, parent, g, s)

RbInsert(t, node, newleft) ==
    InsertColor(IF newleft THEN [t EXCEPT !.leftmost = node] ELSE t, node, Par(t, node))

-----------------------------------------------------------------------------
(* ____rb_erase_color, its four cases.                                     *)
EraseCase1(t, parent, sib, s) ==
    LET tmp == Kid(t, sib, s)
        u == SetKid(SetKid(t, parent, 1 - s, tmp), sib, s, parent)
    IN  Rotate(RotateSetParents(SetPC(u, tmp, parent, TRUE), parent, sib, FALSE), parent, sib)

EraseCase3(t, parent, sib, s) ==
    LET new == Kid(t, sib, s)
        tmp == Kid(t, new, 1 - s)
        u == SetKid(SetKid(SetKid(t, sib, s, tmp), new, 1 - s, sib), parent, 1 - s, new)
    IN  Rotate(SetPC(u, tmp, sib, TRUE), sib, new)

EraseCase4(t, parent, sib, outer, s) ==
    LET tmp == Kid(t, sib, s)
        u == SetKid(SetKid(t, parent, 1 - s, tmp), sib, s, parent)
        v == SetParent(SetPC(u, outer, sib, TRUE), tmp, parent)
    IN  Rotate(RotateSetParents(v, parent, sib, TRUE), parent, sib)

(* A plausible slip: a red sibling's red far child is not enough to stop,  *)
(* the near child is never looked at (case 3 is missing).                  *)
RECURSIVE EraseColorNear(_, _, _)
EraseColorNear(t0, node, parent) ==
    LET s == IF node # Kid(t0, parent, 1) THEN 0 ELSE 1
        sib0 == Kid(t0, parent, 1 - s)
        t == IF Red(t0, sib0) THEN EraseCase1(t0, parent, sib0, s) ELSE t0
        sib == Kid(t, parent, 1 - s)
        outer == Kid(t, sib, 1 - s)
        u == SetPC(t, sib, parent, FALSE)
    IN  IF Red(t, outer) THEN EraseCase4(t, parent, sib, outer, s)
        ELSE IF Red(t, parent) THEN SetPC(u, parent, Par(u, parent), TRUE)
        ELSE IF Par(u, parent) = 0 THEN u
        ELSE EraseColorNear(u, parent, Par(u, parent))

RECURSIVE EraseColor(_, _, _)
EraseColor(t0, node, parent) ==
    LET s == IF node # Kid(t0, parent, 1) THEN 0 ELSE 1
        sib0 == Kid(t0, parent, 1 - s)
        t == IF Red(t0, sib0) THEN EraseCase1(t0, parent, sib0, s) ELSE t0
        sib == Kid(t, parent, 1 - s)
        outer == Kid(t, sib, 1 - s)
        inside == Kid(t, sib, s)
        u == SetPC(t, sib, parent, FALSE)
    IN  IF Red(t, outer) THEN EraseCase4(t, parent, sib, outer, s)
        ELSE IF Red(t, inside) THEN EraseCase4(EraseCase3(t, parent, sib, s), parent, inside, sib, s)
        ELSE IF Red(t, parent) THEN SetPC(u, parent, Par(u, parent), TRUE)
        ELSE IF Par(u, parent) = 0 THEN u
        ELSE EraseColor(u, parent, Par(u, parent))

(* rb_first, rb_last, rb_next, rb_prev and the post-order walk.            *)
RECURSIVE Deep(_, _, _)
Deep(t, n, s) == IF Kid(t, n, s) = 0 THEN n ELSE Deep(t, Kid(t, n, s), s)
RbEnd(t, s) == IF t.root = 0 THEN 0 ELSE Deep(t, t.root, s)
RECURSIVE Climb(_, _, _)
Climb(t, n, s) == IF Par(t, n) # 0 /\ n = Kid(t, Par(t, n), s) THEN Climb(t, Par(t, n), s)
                  ELSE Par(t, n)
RbStep(t, n, s) == IF Kid(t, n, s) # 0 THEN Deep(t, Kid(t, n, s), 1 - s) ELSE Climb(t, n, s)
RbNext(t, n) == RbStep(t, n, 1)
RbPrev(t, n) == RbStep(t, n, 0)

RECURSIVE LeftDeepest(_, _)
LeftDeepest(t, n) ==
    IF Kid(t, n, 0) # 0 THEN LeftDeepest(t, Kid(t, n, 0))
    ELSE IF Kid(t, n, 1) # 0 THEN LeftDeepest(t, Kid(t, n, 1)) ELSE n
FirstPostorder(t) == IF t.root = 0 THEN 0 ELSE LeftDeepest(t, t.root)
NextPostorder(t, n) ==
    LET p == Par(t, n)
    IN  IF p # 0 /\ n = Kid(t, p, 0) /\ Kid(t, p, 1) # 0 THEN LeftDeepest(t, Kid(t, p, 1)) ELSE p

(* __rb_erase_augmented: [t, re], the tree and the node to rebalance at.   *)
EraseOne(t, node, child) ==
    LET p == Par(t, node)
        u == ChangeChild(t, node, child, p)
        v == IF child = 0 THEN u ELSE SetPC(u, child, p, t.n[node].black)
    IN  [t |-> Propagate(v, p, 0),
         re |-> IF child = 0 /\ t.n[node].black THEN p ELSE 0]

EraseTwo(t, node) ==
    LET child == Kid(t, node, 1)
        succ == Deep(t, child, 0)
        near == succ = child
        parent == IF near THEN succ ELSE Par(t, succ)
        child2 == Kid(t, succ, 1)
        moved == SetParent(SetKid(SetKid(t, parent, 0, child2), succ, 1, child), child, succ)
    IN
    Bind(IF near THEN Copy(t, node, succ)
         ELSE Propagate(Copy(moved, node, succ), parent, succ), LAMBDA u :
    LET tmp == Kid(u, node, 0)
        v == SetParent(SetKid(u, succ, 0, tmp), tmp, succ)
        w == ChangeChild(v, node, succ, Par(v, node))
        x == SetPC(w, succ, Par(w, node), w.n[node].black)
    IN  [t |-> Propagate(SetPC(x, child2, parent, TRUE), succ, 0),
         re |-> IF child2 = 0 /\ w.n[succ].black THEN parent ELSE 0])

RbErase(t0, node) ==
    LET t == IF node = t0.leftmost THEN [t0 EXCEPT !.leftmost = RbNext(t0, node)] ELSE t0
        e == IF Kid(t, node, 0) = 0 THEN EraseOne(t, node, Kid(t, node, 1))
             ELSE IF Kid(t, node, 1) = 0 THEN EraseOne(t, node, Kid(t, node, 0))
             ELSE EraseTwo(t, node)
    IN  IF e.re = 0 THEN e.t ELSE EraseColor(e.t, 0, e.re)

RbReplaceNode(t, victim, new) ==
    LET u == [t EXCEPT !.n[new] = t.n[victim],
                       !.leftmost = IF @ = victim THEN new ELSE @]
        v == SetParent(SetParent(u, Kid(u, victim, 0), new), Kid(u, victim, 1), new)
    IN  ChangeChild(v, victim, new, Par(t, victim))

-----------------------------------------------------------------------------
(* The user: search, count the new node in on the way down, link, insert.  *)
RECURSIVE LinkAt(_, _, _)
LinkAt(t, n, new) ==
    LET s == IF Key(new) < Key(n) THEN 0 ELSE 1
        u == [t EXCEPT !.n[n].aug = @ + 1]
    IN  IF Kid(t, n, s) # 0 THEN LinkAt(u, Kid(t, n, s), new)
        ELSE [SetKid(u, n, s, new) EXCEPT !.n[new] = [Unlinked EXCEPT !.p = n, !.aug = 1]]
RbLinkNode(t, new) ==
    IF t.root = 0 THEN [t EXCEPT !.root = new, !.n[new] = [Unlinked EXCEPT !.aug = 1]]
    ELSE LinkAt(t, t.root, new)

(* An erased node's contents matter to nobody.                             *)
Gone(t, n) == [t EXCEPT !.n[n] = Unlinked]

InsertNode(k) ==
    /\ \A n \in rb.in : Key(n) # k
    /\ rb' = [t |-> RbInsert(RbLinkNode(rb.t, k), k, \A n \in rb.in : k < Key(n)),
              in |-> rb.in \cup {k}]
EraseNode(n) == rb' = [t |-> Gone(RbErase(rb.t, n), n), in |-> rb.in \ {n}]
ReplaceNode(n, m) ==
    /\ Key(n) = Key(m) /\ m \notin rb.in
    /\ rb' = [t |-> Gone(RbReplaceNode(rb.t, n, m), n), in |-> (rb.in \ {n}) \cup {m}]

Init == rb = [t |-> [root |-> 0, leftmost |-> 0, n |-> [n \in Nodes |-> Unlinked]], in |-> {}]
Next == \/ \E k \in Keys : InsertNode(k)
        \/ \E n \in rb.in : EraseNode(n) \/ \E m \in Nodes : ReplaceNode(n, m)

-----------------------------------------------------------------------------
(* rbtree.c, whatever nodes come and go: the tree is a red-black tree with *)
(* exactly the inserted nodes in order (its root black, no red node with a *)
(* red child, the same number of black nodes on every path), parents and   *)
(* children agree, the walks visit every node in their order, the cached   *)
(* leftmost node is the first, and the augmented value of every node is    *)
(* that of its subtree.                                                    *)
RECURSIVE InOrder(_), PostOrder(_), BlackHeight(_)
InOrder(n) == IF n = 0 THEN <<>>
              ELSE InOrder(Kid(rb.t, n, 0)) \o <<n>> \o InOrder(Kid(rb.t, n, 1))
PostOrder(n) == IF n = 0 THEN <<>>
                ELSE PostOrder(Kid(rb.t, n, 0)) \o PostOrder(Kid(rb.t, n, 1)) \o <<n>>
BlackHeight(n) ==   \* -1: not balanced
    IF n = 0 THEN 0
    ELSE LET l == BlackHeight(Kid(rb.t, n, 0)) r == BlackHeight(Kid(rb.t, n, 1))
         IN  IF l # r \/ l = -1 THEN -1 ELSE IF Red(rb.t, n) THEN l ELSE l + 1
RbExact ==
    LET t == rb.t
        seq == InOrder(t.root)
        post == PostOrder(t.root)
        at(s, i) == IF i \in DOMAIN s THEN s[i] ELSE 0
    IN  /\ {seq[i] : i \in DOMAIN seq} = rb.in /\ Len(seq) = Cardinality(rb.in)
        /\ \A i \in 1 .. Len(seq) - 1 : Key(seq[i]) < Key(seq[i + 1])
        /\ ~Red(t, t.root) /\ BlackHeight(t.root) # -1
        /\ \A n \in rb.in : /\ \A s \in {0, 1} : Kid(t, n, s) # 0 =>
                                 Par(t, Kid(t, n, s)) = n /\ ~(Red(t, n) /\ Red(t, Kid(t, n, s)))
                            /\ t.n[n].aug = Compute(t, n)
        /\ t.leftmost = at(seq, 1) /\ RbEnd(t, 0) = at(seq, 1) /\ RbEnd(t, 1) = at(seq, Len(seq))
        /\ \A i \in DOMAIN seq : RbNext(t, seq[i]) = at(seq, i + 1) /\ RbPrev(t, seq[i]) = at(seq, i - 1)
        /\ FirstPostorder(t) = at(post, 1)
        /\ \A i \in DOMAIN post : NextPostorder(t, post[i]) = at(post, i + 1)
=============================================================================
