---------------------------- MODULE TopicMatch ----------------------------
(***************************************************************************)
(* _is_topic_matched, the routine that decides which subscription a        *)
(* message belongs to, one step per turn of its loop, against what MQTT    *)
(* says of topic filters: level by level, + stands for one level and a     *)
(* final # for any number of them.                                         *)
(*                                                                         *)
(* Strings are sequences of characters; the pointers curf, curn, curn_end  *)
(* are positions, and the position after the last character of the filter  *)
(* holds the terminating NUL. Names are such that a module can extend this *)
(* one and MqttReceive, whose _deliver_message calls the routine:          *)
(* topicFilter is the parameter topic_filter.                              *)
(***************************************************************************)
EXTENDS Integers, Sequences, FiniteSets

CONSTANTS
    Letters,      \* ordinary characters of a topic
    MaxFilter,    \* bound: length of a filter
    MaxName       \* bound: length of a topic name

ASSUME LettersAssumption == Letters \cap {"/", "+", "#", "NUL"} = {}
ASSUME LengthsAssumption == MaxFilter \in Nat /\ MaxName \in Nat

VARIABLES topicFilter, topicName, curf, curn, pc, matched

matchVars == <<topicFilter, topicName, curf, curn, pc, matched>>

----------------------------------------------------------------------------
(* Topics, as MQTT defines them.                                           *)

\* The non-empty strings over a set of characters.
Strings(chars, max) == UNION {[1..n -> chars] : n \in 1..max}

Separators(s) == {i \in DOMAIN s : s[i] = "/"}
Levels(s) == 1..(Cardinality(Separators(s)) + 1)

\* The position of the k-th separator; one stands before and one after s.
Separator(s, k) ==
    IF k = 0 THEN 0
    ELSE IF k \notin 1..Cardinality(Separators(s)) THEN Len(s) + 1
    ELSE CHOOSE i \in Separators(s) :
           Cardinality({j \in Separators(s) : j <= i}) = k

Level(s, k) == SubSeq(s, Separator(s, k - 1) + 1, Separator(s, k) - 1)

LevelMatches(f, n, k) == Level(f, k) \in {<<"+">>, Level(n, k)}

\* A filter whose last level is # matches its parent level too.
Matches(f, n) ==
    LET depth == Cardinality(Levels(f)) IN
    IF Level(f, depth) = <<"#">>
      THEN \A k \in 1..(depth - 1) : k \in Levels(n) /\ LevelMatches(f, n, k)
      ELSE /\ Levels(n) = Levels(f)
           /\ \A k \in Levels(f) : LevelMatches(f, n, k)

\* "# can only be at end, + and # can only be next to separator".
WellFormed(f) ==
    \A k \in Levels(f) :
        LET level == Level(f, k) IN
        \/ \A i \in DOMAIN level : level[i] \in Letters
        \/ level = <<"+">>
        \/ level = <<"#">> /\ k = Cardinality(Levels(f))

Filters == {f \in Strings(Letters \cup {"/", "+", "#"}, MaxFilter) :
              WellFormed(f)}
Names   == Strings(Letters \cup {"/"}, MaxName)

----------------------------------------------------------------------------
(* _is_topic_matched(topic_filter, topicName)                              *)

MatchInit ==
    /\ topicFilter \in Filters
    /\ topicName \in Names
    /\ curf = 1
    /\ curn = 1
    /\ pc = "loop"
    /\ matched = FALSE

curn_end == Len(topicName) + 1

\* The character at position i of the filter: NUL at the end.
F(i) == IF i = Len(topicFilter) + 1 THEN "NUL" ELSE topicFilter[i]
N(i) == topicName[i]

\* The last position of the level that position i of the name is in.
LevelEnd(i) == CHOOSE j \in i..(curn_end - 1) :
                 /\ j + 1 = curn_end \/ N(j + 1) = "/"
                 /\ \A l \in (i + 1)..j : N(l) # "/"

InLoop == pc = "loop" /\ F(curf) # "NUL" /\ curn < curn_end

\* Mutant: the filter is not advanced.
EmptyLevel_Stays ==
    /\ InLoop
    /\ F(curf) = "+" /\ N(curn) = "/"
    /\ UNCHANGED matchVars

\* + stands for an empty level.
EmptyLevel ==
    /\ InLoop
    /\ F(curf) = "+" /\ N(curn) = "/"
    /\ curf' = curf + 1
    /\ UNCHANGED <<topicFilter, topicName, curn, pc, matched>>

Mismatch ==
    \/ N(curn) = "/" /\ F(curf) # "/"
    \/ F(curf) \notin {"+", "#"} /\ F(curf) # N(curn)

Break ==
    /\ InLoop
    /\ ~(F(curf) = "+" /\ N(curn) = "/")
    /\ Mismatch
    /\ pc' = "exit"
    /\ UNCHANGED <<topicFilter, topicName, curf, curn, matched>>

\* Mutant: # takes one character too many.
Consumed_PastEnd == IF F(curf) = "+" THEN LevelEnd(curn)
                    ELSE IF F(curf) = "#" THEN curn_end
                    ELSE curn

\* The last character of the name that this one of the filter stands for.
Consumed == IF F(curf) = "+" THEN LevelEnd(curn)
            ELSE IF F(curf) = "#" THEN curn_end - 1
            ELSE curn

Advance ==
    /\ InLoop
    /\ ~(F(curf) = "+" /\ N(curn) = "/")
    /\ ~Mismatch
    /\ curf' = curf + 1
    /\ curn' = Consumed + 1
    /\ UNCHANGED <<topicFilter, topicName, pc, matched>>

LoopEnds ==
    /\ pc = "loop"
    /\ F(curf) = "NUL" \/ curn >= curn_end
    /\ pc' = "exit"
    /\ UNCHANGED <<topicFilter, topicName, curf, curn, matched>>

\* Mutant: a filter that ends in # does not match its parent level.
Verdict_NoParent == F(curf) = "NUL" /\ curn = curn_end

\* Mutant: a filter that is a prefix of the name matches.
Verdict_Prefix ==
    \/ F(curf) = "NUL"
    \/ F(curf) = "#"
    \/ F(curf + 1) = "#"
    \/ F(curf) = "+" /\ N(curn - 1) = "/"

\* What is returned when the loop has been left.
Verdict ==
    IF F(curf) = "NUL" THEN curn = curn_end
    ELSE \/ F(curf) = "#"
         \/ F(curf + 1) = "#"
         \/ F(curf) = "+" /\ N(curn - 1) = "/"

Return ==
    /\ pc = "exit"
    /\ matched' = Verdict
    /\ pc' = "done"
    /\ UNCHANGED <<topicFilter, topicName, curf, curn>>

MatchNext == EmptyLevel \/ Break \/ Advance \/ LoopEnds \/ Return

MatchSpec == MatchInit /\ [][MatchNext]_matchVars /\ WF_matchVars(MatchNext)

----------------------------------------------------------------------------
(* Properties.                                                             *)

\* The pointers stay inside their strings, also when the code looks at the
\* character after curf or before curn.
InBounds ==
    /\ curf \in 1..(Len(topicFilter) + 1)
    /\ curn \in 1..curn_end
    /\ pc = "exit" /\ F(curf) = "+" => curn > 1

\* A message that belongs to a subscription is never taken for one that does
\* not: a topic that the filter matches is found to match.
FindsMatches == pc = "done" /\ Matches(topicFilter, topicName) => matched

\* topicFilter without its last n characters.
Front(n) == SubSeq(topicFilter, 1, Len(topicFilter) - n)

\* The topics _is_topic_matched takes besides those that match: p/# also
\* takes topics in which the last level of p is longer, and p/+/q also takes
\* "p/", with nothing for q.
TakesToo ==
    \/ /\ topicFilter[Len(topicFilter)] = "#"
       /\ Len(topicFilter) > 1
       /\ \E k \in 0..(Len(topicName) - 1) :
            IF Len(topicFilter) = 2 THEN k = 0
            ELSE Matches(Front(2), SubSeq(topicName, 1, k))
    \/ /\ topicName[Len(topicName)] = "/"
       /\ \E k \in 1..(Len(topicFilter) - 1) :
            /\ topicFilter[k] = "+"
            /\ k > 1
            /\ Matches(SubSeq(topicFilter, 1, k - 1), topicName)

\* Every other topic is found not to match.
TakesNoOther ==
    pc = "done" /\ matched => Matches(topicFilter, topicName) \/ TakesToo

\* The loop ends, although a turn that reads a + may leave curn where it is.
Terminates == <>(pc = "done")
============================================================================
