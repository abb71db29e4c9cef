----------------------------- MODULE Generator ------------------------------
(***************************************************************************)
(* Generators of coroutine/generator.h: coroutines that suspend after each *)
(* value, and the generators map, flat_map, filter, take and take_while    *)
(* make of another one.  A pipeline is a source (from_array, from_list,    *)
(* from) followed by stages; level 0 is the source, and the body of stage  *)
(* l calls has_next and next of level l - 1, so that one call of the       *)
(* consumer travels down the pipeline and comes back.  A stage is a pair   *)
(* of its kind and what the consumer has given it: a function, or the n of *)
(* take.  As a comment in the code has it, the functions throw nothing.    *)
(***************************************************************************)
EXTENDS Integers, Sequences

CONSTANTS Inputs,      \* what sources may yield: a set of sequences
          Pipelines    \* sequences of stages

VARIABLES
  input, stages,   \* what the source yields; the stages
  done,            \* by level: handle.done()
  is_ready, value, \* the promise
  i,               \* how often the loop of the source, or of take, has begun
  inner,           \* what is left of the generator flat_map is expanding
  got,             \* the values next has returned
  dir, lev,        \* "idle", a call of has_next going "down" or coming "up",
                   \* or "destroyed"
  answer           \* what has_next has returned last

vars == <<input, stages, done, is_ready, value, i, inner, got, dir, lev, answer>>
bodies == <<i, inner>>

Top == Len(stages)
Kind(l) == stages[l][1]
Arg(l) == stages[l][2]

Init ==
  /\ input \in Inputs /\ stages \in Pipelines
  /\ done = [l \in 0..Top |-> FALSE] /\ is_ready = [l \in 0..Top |-> FALSE]
  /\ value = [l \in 0..Top |-> "uninitialized"] /\ i = [l \in 0..Top |-> 0]
  /\ inner = [l \in 0..Top |-> <<>>] /\ got = [l \in 0..Top |-> <<>>]
  /\ dir = "idle" /\ lev = 0 /\ answer = TRUE

-----------------------------------------------------------------------------
(* handle.resume() has come back: has_next returns whether there is more.  *)
Return(l, more) == dir' = "up" /\ lev' = l /\ answer' = more

(* The body of level l suspends with a value, or comes to its end; ready   *)
(* is what has become of the promises below.                               *)
yield_value(l, v, ready) ==
  /\ value' = [value EXCEPT ![l] = v] /\ is_ready' = [ready EXCEPT ![l] = TRUE]
  /\ Return(l, TRUE) /\ UNCHANGED done

return_void(l, ready) ==
  /\ done' = [done EXCEPT ![l] = TRUE] /\ is_ready' = ready
  /\ Return(l, FALSE) /\ UNCHANGED value

(* The consumer asks, with has_next or in next.                            *)
HasNext ==
  /\ dir = "idle" /\ dir' = "down" /\ lev' = Top
  /\ UNCHANGED <<input, stages, done, is_ready, value, bodies, got, answer>>

(* It is done, or the next value is ready already.                         *)
HasNextKnown(l) ==
  /\ dir = "down" /\ lev = l /\ (done[l] \/ is_ready[l])
  /\ Return(l, ~done[l])
  /\ UNCHANGED <<input, stages, done, is_ready, value, bodies, got>>

(* The body runs on.                                                       *)
Resumed(l) == dir = "down" /\ lev = l /\ ~done[l] /\ ~is_ready[l]

from_array ==
  /\ Resumed(0)
  /\ IF i[0] < Len(input)
     THEN yield_value(0, input[i[0] + 1], is_ready) /\ i' = [i EXCEPT ![0] = @ + 1]
     ELSE return_void(0, is_ready) /\ UNCHANGED i
  /\ UNCHANGED <<input, stages, inner, got>>

(* The rest of the inner generator of flat_map comes first.                *)
FlatMapInner(l) ==
  /\ Resumed(l) /\ inner[l] # <<>>
  /\ yield_value(l, Head(inner[l]), is_ready) /\ inner' = [inner EXCEPT ![l] = Tail(@)]
  /\ UNCHANGED <<input, stages, i, got>>

(* take has counted to n.                                                  *)
TakeEnd(l) ==
  /\ Resumed(l) /\ Kind(l) = "take" /\ i[l] >= Arg(l)
  /\ return_void(l, is_ready)
  /\ UNCHANGED <<input, stages, bodies, got>>

(* Mutant: take counts to n + 1.                                           *)
AskBelowOnceMore(l) ==
  /\ Resumed(l) /\ inner[l] = <<>> /\ (Kind(l) = "take" => i[l] <= Arg(l))
  /\ i' = IF Kind(l) = "take" THEN [i EXCEPT ![l] = @ + 1] ELSE i
  /\ lev' = l - 1
  /\ UNCHANGED <<input, stages, done, is_ready, value, inner, got, dir, answer>>

(* while (has_next()) of a stage; take counts first.                       *)
AskBelow(l) ==
  /\ Resumed(l) /\ inner[l] = <<>> /\ (Kind(l) = "take" => i[l] < Arg(l))
  /\ i' = IF Kind(l) = "take" THEN [i EXCEPT ![l] = @ + 1] ELSE i
  /\ lev' = l - 1
  /\ UNCHANGED <<input, stages, done, is_ready, value, inner, got, dir, answer>>

(* The stage below has no more: the loop ends.                             *)
NoMore(l) ==
  /\ dir = "up" /\ lev = l - 1 /\ ~answer
  /\ return_void(l, is_ready)
  /\ UNCHANGED <<input, stages, bodies, got>>

(* next() of the level below consumes its value, and the body yields,      *)
(* ends, or goes round its loop.                                           *)
NextValue(l) ==
  /\ dir = "up" /\ lev = l - 1 /\ answer
  /\ LET v == value[l - 1]
         consumed == [is_ready EXCEPT ![l - 1] = FALSE]
         Loop(rest) == /\ inner' = [inner EXCEPT ![l] = rest] /\ is_ready' = consumed
                       /\ dir' = "down" /\ lev' = l /\ UNCHANGED <<answer, done, value>>
     IN  \/ /\ \/ Kind(l) = "map" /\ yield_value(l, Arg(l)[v], consumed)
               \/ Kind(l) = "take" /\ yield_value(l, v, consumed)
               \/ Kind(l) \in {"filter", "take_while"} /\ Arg(l)[v] /\ yield_value(l, v, consumed)
               \/ Kind(l) = "take_while" /\ ~Arg(l)[v] /\ return_void(l, consumed)
            /\ UNCHANGED inner
         \/ Kind(l) = "filter" /\ ~Arg(l)[v] /\ Loop(<<>>)
         \/ Kind(l) = "flat_map" /\ Loop(Arg(l)[v])
  /\ got' = [got EXCEPT ![l - 1] = Append(@, value[l - 1])]
  /\ UNCHANGED <<input, stages, i>>

(* The answer reaches the consumer: of has_next, which consumes nothing,   *)
(* or of next, which takes the value, or throws when there is none.        *)
Answered ==
  /\ dir = "up" /\ lev = Top /\ dir' = "idle" /\ lev' = 0
  /\ \/ UNCHANGED <<is_ready, got>>
     \/ /\ answer /\ got' = [got EXCEPT ![Top] = Append(@, value[Top])]
        /\ is_ready' = [is_ready EXCEPT ![Top] = FALSE]
  /\ UNCHANGED <<input, stages, done, value, bodies, answer>>

(* ~Generator: the consumer is done with the pipeline, at its end or not.  *)
Destroy ==
  /\ dir = "idle" /\ dir' = "destroyed"
  /\ UNCHANGED <<input, stages, done, is_ready, value, bodies, got, lev, answer>>

Next ==
  \/ HasNext \/ Answered \/ from_array \/ Destroy
  \/ \E l \in 0..Top : HasNextKnown(l)
  \/ \E l \in 1..Top : \/ FlatMapInner(l) \/ TakeEnd(l) \/ AskBelow(l)
                       \/ NoMore(l) \/ NextValue(l)

Spec == Init /\ [][Next]_vars

-----------------------------------------------------------------------------
(* What the n-th value of s adds to the yield of a stage; what the stage   *)
(* is to yield of each prefix of s, and of the whole of it; and what each  *)
(* level of the pipeline is to yield when the source yields s.             *)
Contribution(stage, s, n) ==
  CASE stage[1] = "map" -> <<stage[2][s[n]]>>
    [] stage[1] = "filter" -> IF stage[2][s[n]] THEN <<s[n]>> ELSE <<>>
    [] stage[1] = "flat_map" -> stage[2][s[n]]
    [] stage[1] = "take" -> IF n <= stage[2] THEN <<s[n]>> ELSE <<>>
    [] stage[1] = "take_while" -> IF \A j \in 1..n : stage[2][s[j]] THEN <<s[n]>> ELSE <<>>

Yields(stage, s) ==
  LET Y[n \in 0..Len(s)] == IF n = 0 THEN <<>> ELSE Y[n - 1] \o Contribution(stage, s, n)
  IN  Y

Stage(stage, s) == Yields(stage, s)[Len(s)]

Levels(pipeline, s) ==
  LET L[l \in 0..Len(pipeline)] == IF l = 0 THEN s ELSE Stage(pipeline[l], L[l - 1])
  IN  L

(* The stage has had enough: what follows s makes no difference to it.     *)
Closed(stage, s) ==
  \/ stage[1] = "take" /\ Len(s) >= stage[2]
  \/ stage[1] = "take_while" /\ \E j \in 1..Len(s) : ~stage[2][s[j]]

Begins(s, t) == Len(s) <= Len(t) /\ \A j \in 1..Len(s) : s[j] = t[j]

(* A pipeline yields what its stages say, in order, and all of it before   *)
(* has_next is false; asking does not consume.                             *)
YieldsAll ==
  LET all == Levels(stages, input)[Top]
      asked == Len(got[Top]) + 1 IN
  /\ Begins(got[Top], all) /\ (done[Top] => got[Top] = all)
  /\ is_ready[Top] => asked <= Len(all) /\ value[Top] = all[asked]

(* The source was resumed last when no stage had had enough of what it had *)
(* yielded before, and that gave less than the consumer has asked for.     *)
Lazy ==
  i[0] > 0 =>
    LET before == Levels(stages, SubSeq(input, 1, i[0] - 1)) IN
    /\ \A l \in 1..Top : ~Closed(stages[l], before[l - 1])
    /\ dir = "idle" =>
         \/ Len(before[Top]) < Len(got[Top]) + IF is_ready[Top] THEN 1 ELSE 0
         \/ done[Top]

Exact == YieldsAll /\ Lazy
=============================================================================
