-------------------------------- MODULE Chain --------------------------------
(***************************************************************************)
(* ChainResolver: previous_response_id walked from the parent back to the  *)
(* root of a conversation, one row at a time, while clients delete rows.   *)
(*                                                                         *)
(* A turn is what one response left in the store: its input as it stands   *)
(* in the request, how many of the input items were saved beside it, and   *)
(* its output, in the row or only in the table of output items.            *)
(***************************************************************************)
EXTENDS Integers, Sequences, SequencesExt

CONSTANTS
    Ids,          \* response ids, positive integers; 1 is the parent of the request
    Turns,        \* the turns a row may hold
    DepthCap,     \* max_depth
    ItemsCap,     \* max_items
    TokensCap     \* max_tokens

VARIABLES
    row,        \* the stored rows: [prev, mine, compact, turn]; never updated here
    deleted,    \* ids whose row a client deleted
    pc,         \* "visit", "inputs", "outputs", "account" or "answered"
    current,    \* the id being visited
    raw,        \* items of the current turn read so far
    visited,    \* visited, in walk order
    buckets,    \* visible items of the visited turns, in walk order
    answer      \* [ok, items, why]

chainvars == <<row, deleted, pc, current, raw, visited, buckets, answer>>

\* An item is one of a message, a long message or a reasoning item.
Weight(item) == IF item = "long" THEN 2 ELSE 1
Tokens(items) == FoldLeft(LAMBDA sum, i : sum + Weight(i), 0, items)

NoAnswer == [ok |-> FALSE, items |-> <<>>, why |-> "none"]

Init ==
    /\ row \in [Ids -> [prev : Ids \cup {0}, mine : BOOLEAN, compact : BOOLEAN, turn : Turns]]
    /\ \A i \in Ids : row[i].compact \/ ~row[i].mine => row[i].turn = CHOOSE t \in Turns : TRUE
    /\ deleted = {} /\ pc = "visit" /\ current = 1
    /\ raw = <<>> /\ visited = <<>> /\ buckets = <<>> /\ answer = NoAnswer

AtRest ==
    /\ row = [i \in Ids |-> [prev |-> 0, mine |-> TRUE, compact |-> FALSE, turn |-> CHOOSE t \in Turns : TRUE]]
    /\ deleted = {} /\ pc = "answered" /\ current = 1
    /\ raw = <<>> /\ visited = <<>> /\ buckets = <<>> /\ answer = NoAnswer

Seen == ToSet(visited)
Total == Len(FlattenSeq(buckets))

---------------------------------------------------------------------------

\* _fail, rendered by chain_error_response: no items, and the request ends here.
Fail(why) ==
    /\ answer' = [ok |-> FALSE, items |-> <<>>, why |-> why]
    /\ pc' = "answered"

\* The loop is left with the buckets collected: root first.
Resolved(all) ==
    /\ answer' = [ok |-> TRUE, items |-> FlattenSeq(Reverse(all)), why |-> "none"]
    /\ pc' = "answered"

\* The guards before a row is read.
Guard ==
    IF current \in Seen THEN "cycle"
    ELSE IF Len(visited) >= DepthCap THEN "too_deep" ELSE "none"

Stored(i) == i \notin deleted /\ row[i].mine

\* get_response: missing, deleted and foreign rows look the same.
Visit ==
    /\ pc = "visit"
    /\ IF Guard # "none" THEN Fail(Guard) /\ UNCHANGED visited
       ELSE IF ~Stored(current) THEN Fail("not_found") /\ UNCHANGED visited
       ELSE pc' = "inputs" /\ visited' = Append(visited, current) /\ UNCHANGED answer
    /\ raw' = <<>>
    /\ UNCHANGED <<row, deleted, current, buckets>>

Turn == row[current].turn

\* Mutant: exactly what is left of the budget.
LimitExact == ItemsCap - Total

\* limit: one past what is left of the budget.
Limit == ItemsCap - Total + 1

UpTo(items, n) == SubSeq(items, 1, IF n < Len(items) THEN n ELSE Len(items))

\* list_input_items; the request's own copy when no item was saved.
ReadInputs ==
    /\ pc = "inputs"
    /\ raw' = IF Turn.saved > 0 THEN UpTo(UpTo(Turn.input, Turn.saved), Limit) ELSE Turn.input
    /\ pc' = "outputs"
    /\ UNCHANGED <<row, deleted, current, visited, buckets, answer>>

\* record.output, else list_output_items.
ReadOutputs ==
    /\ pc = "outputs"
    /\ raw' = raw \o (IF Turn.inrow THEN Turn.output ELSE UpTo(Turn.output, Limit))
    /\ pc' = "account"
    /\ UNCHANGED <<row, deleted, current, visited, buckets, answer>>

\* normalize_history: reasoning is never replayed.
Visible(items) == SelectSeq(items, LAMBDA i : i # "reasoning")

\* The budgets, the self-reference, the compact boundary and the next parent.
Account ==
    /\ pc = "account"
    /\ LET all == Append(buckets, Visible(raw))
           flat == FlattenSeq(all)
           prev == row[current].prev
       IN  /\ buckets' = all
           /\ CASE Len(flat) > ItemsCap -> Fail("items") /\ UNCHANGED current
                [] Len(flat) <= ItemsCap /\ Tokens(flat) > TokensCap -> Fail("tokens") /\ UNCHANGED current
                [] OTHER ->
                     IF prev = current THEN Fail("cycle") /\ UNCHANGED current
                     ELSE IF row[current].compact \/ prev = 0 THEN Resolved(all) /\ UNCHANGED current
                     ELSE current' = prev /\ pc' = "visit" /\ UNCHANGED answer
    /\ raw' = <<>>
    /\ UNCHANGED <<row, deleted, visited>>

\* DELETE /v1/responses/{id}, by its owner: the row goes, the items stay for the sweep.
Delete(i) ==
    /\ pc # "answered"
    /\ Stored(i) /\ deleted = {}
    /\ deleted' = {i}
    /\ UNCHANGED <<row, pc, current, raw, visited, buckets, answer>>

Next == Visit \/ ReadInputs \/ ReadOutputs \/ Account \/ \E i \in Ids : Delete(i)

Spec == Init /\ [][Next]_chainvars

---------------------------------------------------------------------------
(* Properties *)

\* The conversation that ends at i, as ids from i back to its root or to a
\* compact boundary; it stops short of an id it has already met, and of one that
\* is not there.
Conversation(i) ==
    LET walk[n \in 0..Len(SetToSeq(Ids))] ==
          IF n = 0 THEN <<i>>
          ELSE LET w == walk[n - 1]
                   r == row[Last(w)]
               IN  IF r.compact \/ ~r.mine \/ r.prev = 0 \/ r.prev \in ToSet(w) THEN w ELSE Append(w, r.prev)
    IN  walk[Len(SetToSeq(Ids))]

Whole(i) == Visible(row[i].turn.input \o row[i].turn.output)

Context(i) == FlattenSeq([n \in 1..Len(Conversation(i)) |-> Whole(Reverse(Conversation(i))[n])])

\* The conversation has a beginning and all of it is the client's.
Rooted(i) ==
    LET ids == Conversation(i)
        end == row[Last(ids)]
    IN  /\ \A n \in 1..Len(ids) : row[ids[n]].mine
        /\ end.prev # Last(ids)
        /\ end.compact \/ end.prev = 0

\* And it fits.
Sound(i) ==
    /\ Rooted(i)
    /\ Len(Conversation(i)) <= DepthCap
    /\ Len(Context(i)) <= ItemsCap /\ Tokens(Context(i)) <= TokensCap

\* A turn that a limited read cannot cut short without noticing: it has no
\* reasoning, and its input items were saved all or not at all.
Even(t) == "reasoning" \notin ToSet(t.input \o t.output) /\ t.saved \in {0, Len(t.input)}

\* The beginnings of an input and of an output, with the end of either cut off.
Beginnings(t) == {Visible(UpTo(t.input, k) \o UpTo(t.output, m)) : k \in 0..Len(t.input), m \in 0..Len(t.output)}

\* A follow-up is answered with every turn of its conversation, root first, or with
\* an error, never with fewer turns: not after a deletion in the middle of the walk,
\* not for a cycle or a foreign parent.  An Even turn comes whole; of another one
\* the end of its input or of its output may be missing.  When all turns are Even
\* and none was deleted, the error is for a reason.
ContextIsTheConversation ==
    LET ids == Conversation(1)
    IN  pc = "answered" /\ visited # <<>> =>
          /\ answer.ok =>
                /\ Rooted(1) /\ visited = ids /\ Len(ids) <= DepthCap
                /\ \A n \in 1..Len(ids) :
                      IF Even(row[ids[n]].turn) THEN buckets[n] = Whole(ids[n])
                      ELSE buckets[n] \in Beginnings(row[ids[n]].turn)
                /\ answer.items = FlattenSeq(Reverse(buckets))
                /\ Len(answer.items) <= ItemsCap /\ Tokens(answer.items) <= TokensCap
          /\ (deleted = {} /\ \A n \in 1..Len(ids) : Even(row[ids[n]].turn)) => answer.ok = Sound(1)

\* What the comments of chain.py say without that exception: an oversized turn trips
\* the guard and is never silently truncated.  The code does not keep to it where a
\* turn has reasoning items: they use up the limit of the read and are dropped
\* before the items are counted.
NothingIsTruncated ==
    pc = "answered" /\ answer.ok /\ (\A n \in 1..Len(visited) : row[visited[n]].turn.saved \in {0, Len(row[visited[n]].turn.input)}) =>
       answer.items = Context(1)
=============================================================================
