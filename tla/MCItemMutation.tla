---------------------------- MODULE MCItemMutation ----------------------------
(* Instances of ItemMutation: two rows of a collection scoped by its owner.   *)
EXTENDS ItemMutation, TLC

CONSTANTS q1, q2

At(key, owner, title) == [id |-> key, owner |-> owner, title |-> title]

MCField == {"id", "owner", "title"}
MCScopeFields == <<"owner">>
MCValue == {"r1", "r2", "a", "b", "c", "x", "y"}
MCRow == {"r1", "r2"}
MCInitialRows == {[r1 |-> At("r1", "a", "x"), r2 |-> At("r2", "b", "x")],
                  [r1 |-> At("r1", "a", "x"), r2 |-> Absent]}

Pinning(pinned, view) == [pinned |-> pinned, view |-> view]

MCRead == {Pinning([owner |-> {"a"}], {"title"}),
           Pinning([owner |-> {"b"}], {"title"}),
           Pinning([owner |-> {"c"}], {"title"}),
           Pinning([owner |-> {"a", "b"}], {"title"}),
           Pinning([id |-> {"r1"}], {AnyField}),
           Pinning(<< >>, {"title"})}

Update(r, set) == [kind |-> "update", row |-> r, set |-> set]
Create(r, owner) == [kind |-> "create", row |-> r, set |-> [owner |-> owner, title |-> "x"]]
Delete(r) == [kind |-> "delete", row |-> r, set |-> << >>]

MCHookWrite == {[row |-> "r2", set |-> [owner |-> "a"]], [row |-> "r1", set |-> [owner |-> "b"]]}

MCRequest == {q1, q2}
MCHooked == {q1}

By(opener, sequence) == [opener |-> opener, calls |-> sequence]

MoveR1 == Update("r1", [owner |-> "b"])
RenameR1 == Update("r1", [title |-> "y"])

Nothing == By("service", << >>)
Move(r, owner) == By("service", <<Update(r, [owner |-> owner])>>)

(* One request with hooks, of each opener and kind, next to one that writes   *)
(* one of its rows, or alone.                                                 *)
Pairs(first, second) == {q1 :> p @@ q2 :> o : p \in first, o \in second}

MCPlans ==
  Pairs({By("service", <<c>>) : c \in {MoveR1, Delete("r1")}}, {Move("r1", "c")})
    \cup Pairs({By("service", <<c>>) : c \in {RenameR1, Create("r2", "a")}}, {Move("r2", "a")})
    \cup Pairs({By("caller", <<MoveR1>>)}, {Move("r1", "c")})
    \cup Pairs({By("rows", <<Create("r2", "a")>>)}, {Move("r1", "c")})
    \cup Pairs({By("caller", <<Delete("r1"), Create("r2", "a")>>),
               By("rows", <<MoveR1, Update("r2", [title |-> "y"])>>)}, {Nothing})

NoGapYet == gaps = {}
OnlyDropped == gaps \subseteq {"dropped"}
=============================================================================
