---------------------------------- MODULE Ids ----------------------------------
(***************************************************************************)
(* The string matcher of the IDS function, mtnf/nfs/mtnf_ids.c (the same   *)
(* text is in container_fn/ids/main.c): the rules are strings, mtnf_get_next *)
(* computes a failure table for each, mtnf_kmp looks for every rule in the *)
(* first characters of a payload.  One pass through a loop is one step.    *)
(* Arrays start at 0, as in C.                                             *)
(***************************************************************************)
EXTENDS Integers, FiniteSets

CONSTANTS
    IDS_RULE_NUM,  \* rules
    STR_LEN,       \* size of a rule's array: its characters and a NUL
    LETTERS,       \* 26: the rules repeat the alphabet
    TextBound      \* bound: characters of a payload that are scanned

IdsRules == 0 .. IDS_RULE_NUM - 1
Places == 0 .. STR_LEN - 1
NUL == 0
Chars == 0 .. LETTERS   \* NUL, for all that is no letter, and the letters

ASSUME IdsAssumption ==
    /\ IDS_RULE_NUM \in Nat \ {0}
    /\ STR_LEN \in Nat \ {0, 1}
    /\ LETTERS \in Nat \ {0}
    /\ TextBound \in Nat

VARIABLES
    at,      \* where the function is: "fill", "next", "idle" or "kmp"
    filled,  \* rules mtnf_ids_init has written
    str,     \* [IdsRules -> [Places -> Chars]]
    next,    \* [IdsRules -> [Places -> -1 .. STR_LEN - 2]]
    index,   \* the rule at work on
    i, j,    \* the loop variables of mtnf_get_next and mtnf_kmp
    text,    \* the payload
    scan,    \* s_len / 5: how many of its characters are looked at
    found    \* what mtnf_kmp has found in text so far

idsVars == <<at, filled, str, next, index, i, j, text, scan, found>>
ruleVars == <<filled, str>>
textVars == <<text, scan>>

IdsTypeOK ==
    /\ at \in {"fill", "next", "idle", "kmp"}
    /\ filled \in 0 .. IDS_RULE_NUM
    /\ str \in [IdsRules -> [Places -> Chars]]
    /\ next \in [IdsRules -> [Places -> -1 .. STR_LEN - 2]]
    /\ index \in IdsRules
    /\ i \in Nat /\ j \in Nat \cup {-1}
    /\ scan \in Nat
    /\ text \in [0 .. scan - 1 -> Chars]
    /\ found \in BOOLEAN

\* The state is zeroed memory.
IdsInit ==
    /\ at = "fill"
    /\ filled = 0
    /\ str = [r \in IdsRules |-> [k \in Places |-> NUL]]
    /\ next = [r \in IdsRules |-> [k \in Places |-> 0]]
    /\ index = 0 /\ i = 0 /\ j = 0
    /\ scan = 0 /\ text = [k \in {} |-> NUL]
    /\ found = FALSE

-----------------------------------------------------------------------------
(* mtnf_ids_init *)

\* 'a' + (k % 26), with a NUL at the end.
Alphabet == [k \in Places |-> IF k = STR_LEN - 1 THEN NUL ELSE 1 + (k % LETTERS)]

\* strlen of a rule: a written one is full, the others are still zeroed.
StrLen(r) == IF r < filled THEN STR_LEN - 1 ELSE 0

\* mtnf_get_next goes through all rules after each one that is written.
Fill ==
    /\ at = "fill"
    /\ str' = [str EXCEPT ![filled] = Alphabet]
    /\ filled' = filled + 1
    /\ next' = [next EXCEPT ![0][0] = -1]
    /\ index' = 0 /\ i' = 0 /\ j' = -1
    /\ at' = "next"
    /\ UNCHANGED <<textVars, found>>

(* mtnf_get_next *)

InTable == at = "next" /\ i < StrLen(index) - 1

NextExtend ==
    /\ InTable
    /\ j # -1 => str[index][i] = str[index][j]
    /\ i' = i + 1 /\ j' = j + 1
    /\ next' = [next EXCEPT ![index][i + 1] = j + 1]
    /\ UNCHANGED <<at, ruleVars, index, textVars, found>>

NextFallBack ==
    /\ InTable
    /\ j # -1 /\ str[index][i] # str[index][j]
    /\ j' = next[index][j]
    /\ UNCHANGED <<at, ruleVars, next, index, i, textVars, found>>

NextRule ==
    /\ at = "next" /\ ~InTable
    /\ index + 1 < IDS_RULE_NUM
    /\ index' = index + 1 /\ i' = 0 /\ j' = -1
    /\ next' = [next EXCEPT ![index + 1][0] = -1]
    /\ UNCHANGED <<at, ruleVars, textVars, found>>

TableDone ==
    /\ at = "next" /\ ~InTable
    /\ index + 1 = IDS_RULE_NUM
    /\ at' = IF filled = IDS_RULE_NUM THEN "idle" ELSE "fill"
    /\ UNCHANGED <<ruleVars, next, index, i, j, textVars, found>>

(* mtnf_ids_handler: a TCP or UDP packet.  Whatever is found, it passes. *)
Receive ==
    /\ at = "idle"
    /\ \E n \in 0 .. TextBound : \E s \in [0 .. n - 1 -> Chars] :
         text' = s /\ scan' = n
    /\ index' = 0 /\ i' = 0 /\ j' = 0
    /\ found' = FALSE
    /\ at' = "kmp"
    /\ UNCHANGED <<ruleVars, next>>

(* mtnf_kmp *)

InScan == at = "kmp" /\ i < scan /\ j < StrLen(index)

KmpAdvance ==
    /\ InScan
    /\ j # -1 => text[i] = str[index][j]
    /\ i' = i + 1 /\ j' = j + 1
    /\ UNCHANGED <<at, ruleVars, next, index, textVars, found>>

\* A bug: the character that did not match is not looked at again.
KmpSkip ==
    /\ InScan
    /\ j # -1 /\ text[i] # str[index][j]
    /\ i' = i + 1 /\ j' = 0
    /\ UNCHANGED <<at, ruleVars, next, index, textVars, found>>

KmpFallBack ==
    /\ InScan
    /\ j # -1 /\ text[i] # str[index][j]
    /\ j' = next[index][j]
    /\ UNCHANGED <<at, ruleVars, next, index, i, textVars, found>>

Matched == j = StrLen(index)

KmpNextRule ==
    /\ at = "kmp" /\ ~InScan
    /\ found' = (found \/ Matched)
    /\ index + 1 < IDS_RULE_NUM
    /\ index' = index + 1 /\ i' = 0 /\ j' = 0
    /\ UNCHANGED <<at, ruleVars, next, textVars>>

KmpDone ==
    /\ at = "kmp" /\ ~InScan
    /\ found' = (found \/ Matched)
    /\ index + 1 = IDS_RULE_NUM
    /\ at' = "idle"
    /\ UNCHANGED <<ruleVars, next, index, i, j, textVars>>

IdsNext ==
    \/ Fill
    \/ NextExtend \/ NextFallBack \/ NextRule \/ TableDone
    \/ Receive
    \/ KmpAdvance \/ KmpFallBack \/ KmpNextRule \/ KmpDone

IdsSpec == IdsInit /\ [][IdsNext]_idsVars

-----------------------------------------------------------------------------
(* Properties *)

\* The first n characters of s end in the first b characters of p.
EndsIn(s, n, p, b) == \A k \in 0 .. b - 1 : s[n - b + k] = p[k]

\* b is the length of a proper border of the first n characters of rule r.
IsBorder(r, n, b) == EndsIn(str[r], n, str[r], b)

Occurs(r) ==
    \E n \in StrLen(r) .. scan : EndsIn(text, n, str[r], StrLen(r))

(* mtnf_ids.c:29-62: falling back over the table neither skips an occurrence *)
(* nor invents one: after a payload, something was found if and only if some *)
(* rule occurs in the characters that were scanned.                          *)
MatchIsExact ==
    at = "idle" => (found <=> \E r \in IdsRules : Occurs(r))

(* mtnf_ids.c:16-25: the table, computed from its own earlier entries and    *)
(* once more after each rule, ends up with the longest proper borders.       *)
TableIsExact ==
    at \in {"idle", "kmp"} =>
        \A r \in IdsRules : \A n \in 1 .. StrLen(r) - 1 :
            /\ next[r][n] \in 0 .. n - 1
            /\ IsBorder(r, n, next[r][n])
            /\ \A b \in next[r][n] + 1 .. n - 1 : ~IsBorder(r, n, b)

(* mtnf_ids.c:20,24,46,52: no index ever leaves its array: the places that    *)
(* the loops read and write are those of the rule, the table and the scan.   *)
IndicesStayInside ==
    /\ at = "next" => i \in Places /\ j \in -1 .. i
    /\ at = "kmp" => i \in 0 .. scan /\ j \in -1 .. StrLen(index)

(* mtnf_ids.c:16,44: both loops end: a pass either reads on or falls back,   *)
(* and 2i - j, which is at most twice the length plus one, grows by each.    *)
LoopsMakeProgress ==
    [][(InTable \/ InScan) => 2 * i' - j' > 2 * i - j]_idsVars

(* The matcher is exact because its tables are, and stays inside them.        *)
MatcherIsSound == MatchIsExact /\ TableIsExact /\ IndicesStayInside

=============================================================================
