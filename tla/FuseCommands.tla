---------------------------- MODULE FuseCommands -----------------------------
(***************************************************************************)
(* fuse_commands (fuse_commands.cpp): the commands of a buffer are copied  *)
(* to another one, neighbouring leaves as one range.                       *)
(***************************************************************************)
EXTENDS Commands

Restart(com, n, f, s) == [com EXCEPT !.name = n, !.first = f, !.second = s]

(* The commands of inp from the one with index i down, written behind out:  *)
(* neighbouring leaves under one kind of operation become one operation     *)
(* over a range of leaves.  fuse_or and fuse_concat are FusePair for their  *)
(* two pairs of names.                                                      *)
RECURSIVE fuse_commandsR(_, _, _)

(* left: the buffer with the first operand fused, both: with the second one *)
FuseGroups(left, both, twice, com, right, pair, multi) ==
    LET s     == Len(left) - 1
        group == Last(left).name = multi
    IN  CASE group /\ is_leaf(right) ->
                 Front(left) \o <<right, Restart(com, multi, Last(left).first, s)>>
          [] group /\ ~is_leaf(right) /\ Last(both).name = multi ->
                 Append(RemoveAt(both, s + 1),
                        Restart(com, multi, Last(left).first, Last(both).second - 1))
          [] group /\ ~is_leaf(right) /\ Last(both).name # multi ->
                 Append(twice, Restart(com, pair, s, Len(twice) - 1))
          [] OTHER -> Append(both, Restart(com, pair, s, Len(both) - 1))

(* Mutant: the range is not extended to the left. *)
FuseLeafLosingIt(out, both, com, right, pair, multi) ==
    LET s == Len(out)
    IN  CASE is_leaf(right) -> Append(both, Restart(com, multi, s, s + 1))
          [] ~is_leaf(right) /\ Last(both).name = multi -> both
          [] OTHER -> Append(both, Restart(com, pair, s, Len(both) - 1))

FuseLeaf(out, both, com, right, pair, multi) ==
    LET s == Len(out)
    IN  CASE is_leaf(right) -> Append(both, Restart(com, multi, s, s + 1))
          [] ~is_leaf(right) /\ Last(both).name = multi -> [both EXCEPT ![Len(both)].first = s]
          [] OTHER -> Append(both, Restart(com, pair, s, Len(both) - 1))

FusePair(out, inp, com, pair, multi) ==
    LET right == inp[com.second + 1]
    IN  With(fuse_commandsR(out, inp, com.first), LAMBDA left :
        With(fuse_commandsR(left, inp, com.second), LAMBDA both :
            IF is_leaf(inp[com.first + 1])
            THEN FuseLeaf(out, both, com, right, pair, multi)
            ELSE FuseGroups(left, both, fuse_commandsR(both, inp, com.second),
                            com, right, pair, multi)))

fuse_commandsR(out, inp, i) ==
    LET com == inp[i + 1]
    IN  CASE com.name \in {"Or", "Multior"} -> FusePair(out, inp, com, "Or", "Multior")
          [] com.name \in {"Concat", "Multiconcat"} ->
                 FusePair(out, inp, com, "Concat", "Multiconcat")
          [] com.name \in Unary ->
                 With(fuse_commandsR(out, inp, com.first), LAMBDA operand :
                     Append(operand, [com EXCEPT !.first = Len(operand) - 1]))
          [] OTHER -> Append(out, com)

fuse_commands(buf) == IF buf = <<>> THEN <<>>
                      ELSE fuse_commandsR(<<>>, buf, Len(buf) - 1)
=============================================================================
