------------------------------- MODULE Batching -------------------------------
(***************************************************************************)
(* inference/batching.py: DynamicBatcher.build_batches as an operator from *)
(* a set of candidates to the sequence of batches, a batch being the       *)
(* sequence of its candidates.  A candidate is a record                    *)
(*   [id, model, event, priority, tokens, batchable].                      *)
(***************************************************************************)
EXTENDS Naturals, FiniteSets, Sequences

CONSTANTS MaxBatchSize,            \* policy.max_batch_size
          MaxBatchTokens,          \* policy.max_batch_tokens
          HighPriorityThreshold,   \* policy.high_priority_threshold
          AllowSingleItemBatches   \* policy.allow_single_item_batches

\* BatchingPolicy.__post_init__ refuses limits below 1.
ASSUME BatchingAssumption ==
    /\ MaxBatchSize \in Nat \ {0}
    /\ MaxBatchTokens \in Nat \ {0}
    /\ HighPriorityThreshold \in Nat \ {0}
    /\ AllowSingleItemBatches \in BOOLEAN

CompatibilityKey(c) == <<c.model, c.event>>

\* total_estimated_tokens; _split_group keeps the same sum in current_tokens.
TotalTokens(batch) ==
    LET sum[i \in 0..Len(batch)] == IF i = 0 THEN 0 ELSE sum[i - 1] + batch[i].tokens
    IN  sum[Len(batch)]

\* The order of build_batches: priority, then request id.
Precedes(c, d) ==
    \/ c.priority < d.priority
    \/ c.priority = d.priority /\ c.id < d.id

\* The candidates C sorted; to sort some of them is to leave the others out.
InOrder(C) ==
    CHOOSE s \in [1..Cardinality(C) -> C] :
        \A i, j \in 1..Cardinality(C) : i < j => Precedes(s[i], s[j])

\* A candidate that gets a batch of its own whatever the others are.
Immediate(c) ==
    \/ ~c.batchable
    \/ c.priority <= HighPriorityThreshold
    \/ c.tokens > MaxBatchTokens

\* A mutant: the tokens of the candidate itself are not added.
ClosesTooLate(current, c) ==
    \/ Len(current) >= MaxBatchSize
    \/ TotalTokens(current) > MaxBatchTokens

\* The next candidate no longer fits into the batch being filled.
Closes(current, c) ==
    \/ Len(current) >= MaxBatchSize
    \/ current # <<>> /\ TotalTokens(current) + c.tokens > MaxBatchTokens

\* The greedy loop of _split_group: the batches closed and the one being filled.
NextTurn(turn, c) ==
    IF Closes(turn.current, c)
    THEN [batches |-> Append(turn.batches, turn.current), current |-> <<c>>]
    ELSE [batches |-> turn.batches, current |-> Append(turn.current, c)]

LastTurn(group) ==
    LET turn[i \in 0..Len(group)] == IF i = 0 THEN [batches |-> <<>>, current |-> <<>>]
                                     ELSE NextTurn(turn[i - 1], group[i])
    IN  turn[Len(group)]

\* A mutant: the last batch of a group is forgotten.
SplitWithoutLast(group) == LastTurn(group).batches

\* _split_group; only the last batch can be refused for holding a single item.
SplitGroup(group) ==
    LET last == LastTurn(group)
    IN  IF Len(last.current) > 1 \/ AllowSingleItemBatches
        THEN Append(last.batches, last.current)
        ELSE last.batches

Singles(ordered) == [i \in DOMAIN ordered |-> <<ordered[i]>>]

\* The candidates that may share batches, those of them that come first in their
\* group, and the group of one of these.
Shared(C) == {c \in C : ~Immediate(c)}

Firsts(C) == {c \in Shared(C) : \A d \in Shared(C) :
                CompatibilityKey(d) = CompatibilityKey(c) => ~Precedes(d, c)}

Group(C, first) == {c \in Shared(C) : CompatibilityKey(c) = CompatibilityKey(first)}

\* What the groups add to the batches there are, group after group in the order
\* in which the dict met their keys.
Extended(batches, C) ==
    LET firsts == InOrder(Firsts(C))
        extended[k \in 0..Len(firsts)] ==
            IF k = 0 THEN batches
            ELSE extended[k - 1] \o SplitGroup(InOrder(Group(C, firsts[k])))
    IN  extended[Len(firsts)]

\* A mutant: the immediate batches come last.
BuildImmediateLast(C) == Extended(<<>>, C) \o Singles(InOrder(C \ Shared(C)))

BuildBatches(C) == Extended(Singles(InOrder(C \ Shared(C))), C)
=============================================================================
