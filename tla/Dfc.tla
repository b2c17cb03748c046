-------------------------------- MODULE Dfc --------------------------------
(***************************************************************************)
(* The multi-pattern matcher of hyperscan/vs_dfc/dfc_src: patterns are      *)
(* added, compiled into direct filters and compact tables by length class   *)
(* (1, 2-3, 4-7, 8 and more bytes), and a buffer is searched.               *)
(* A direct filter is a bitmap over all 2^16 pairs of bytes, so it is the   *)
(* set of its pairs.  A compact table compares the whole fragment after the *)
(* CRC has chosen the bucket, so it is a function from fragments.  Bytes    *)
(* keep their ASCII codes.  The memory statistics are left out.             *)
(***************************************************************************)
EXTENDS Integers, Sequences, FiniteSetsExt

CONSTANTS Pool,               \* what may be added: records [pat, nocase]
          Texts,              \* the buffers that may be searched
          Before,             \* the three bytes that lie in front of a buffer
          MaxPatterns,        \* bound on the calls of DFC_AddPattern
          RECURSIVE_BOUNDARY  \* pids that make a table entry recursive

VARIABLES phase,    \* "adding", "compiled", "searched" or "freed"
          added,    \* the calls of DFC_AddPattern so far, for the properties
          patterns, \* DFC_PATTERN by iid + 1: casepatrn, patrn, nocase, sids
          dfc,      \* the compiled filters and tables
          text,     \* the buffer searched last, with the bytes before it
          reports,  \* the calls of Match: <<iid, first byte, table>>
          matches   \* the value DFC_Search returned
vars == <<phase, added, patterns, dfc, text, reports, matches>>

NoDfc == [on |-> FALSE]
------------------------------------------------------------------------------
toupper(c) == IF c \in 97..122 THEN c - 32 ELSE c
tolower(c) == IF c \in 65..90 THEN c + 32 ELSE c
ConvertCaseEx(s) == [k \in DOMAIN s |-> toupper(s[k])]
my_strncmp(a, b) == a = b
my_strncasecmp(a, b) == [k \in DOMAIN a |-> tolower(a[k])] = [k \in DOMAIN b |-> tolower(b[k])]

(* What strcmp sees of a pattern: the bytes in front of the first NUL.     *)
CString(s) == LET nuls == {k \in DOMAIN s : s[k] = 0}
              IN  IF nuls = {} THEN s ELSE SubSeq(s, 1, Min(nuls) - 1)

DFC_InitHashRaw(s) == (Len(s) * s[1] + (IF Len(s) > 1 THEN s[2] ELSE 0)) % 65536

(* The patterns of the bucket of s that strcmp calls equal to s; the first *)
(* one in the list is the first one added.  The stored copy has no NUL of  *)
(* its own: where it has none inside, strcmp reads on behind its block,    *)
(* and finds the end of the string there if that byte is zero.             *)
DFC_InitHashLookup(s, zeroBehind) ==
    {q \in DOMAIN patterns :
        /\ DFC_InitHashRaw(patterns[q].casepatrn) = DFC_InitHashRaw(s)
        /\ CString(patterns[q].casepatrn) = CString(s)
        /\ zeroBehind \/ CString(s) # patterns[q].casepatrn}

NewPattern(e, sid) == [casepatrn |-> e.pat, patrn |-> ConvertCaseEx(e.pat),
                       nocase |-> e.nocase, sids |-> {sid}]

Init == /\ phase = "adding" /\ added = <<>> /\ patterns = <<>> /\ dfc = NoDfc
        /\ text = [before |-> <<>>, buf |-> <<>>] /\ reports = {} /\ matches = 0

DFC_AddPattern(e, sid, zeroBehind) ==
    LET found == DFC_InitHashLookup(e.pat, zeroBehind)
    IN  /\ phase = "adding" /\ Len(added) < MaxPatterns
        /\ added' = Append(added, [pat |-> e.pat, nocase |-> e.nocase, sid |-> sid])
        /\ patterns' = IF found = {} THEN Append(patterns, NewPattern(e, sid))
                       ELSE [patterns EXCEPT ![Min(found)].sids = @ \cup {sid}]
        /\ UNCHANGED <<phase, dfc, text, reports, matches>>
------------------------------------------------------------------------------
(* Build_pattern under every flag: the bytes from..from+len-1 of a pattern *)
(* in each combination of cases, if the pattern ignores case.              *)
Build_pattern(p, flag, j) ==
    IF ~p.nocase THEN p.casepatrn[j]
    ELSE IF flag = 0 THEN tolower(p.patrn[j]) ELSE toupper(p.patrn[j])
Variants(p, from, len) ==
    {[k \in 1..len |-> Build_pattern(p, flag[k], from + k - 1)] : flag \in [1..len -> {0, 1}]}

Size(p) == Len(p.casepatrn)
Pids(lo, hi) == {q \in DOMAIN patterns : Size(patterns[q]) \in lo..hi}
Longest == 32
PairsAt(p, from) == Variants(p, from, 2)

FirstPair_Head(n) == CASE n = 2 -> 1 [] n = 3 -> 1 [] n \in 4..7 -> n - 3 [] n >= 8 -> n - 7

(* Where the two bytes of a pattern that DirectFilter1 looks at start.     *)
FirstPair(n) == CASE n \in 2..3 -> n - 1 [] n \in 4..7 -> n - 3 [] n >= 8 -> n - 7

(* The bytes a one-byte pattern matches, and their table.                  *)
OneByte(p) == {p.casepatrn[1]} \cup
    (IF ~p.nocase THEN {}
     ELSE IF p.casepatrn[1] \in 97..122 THEN {toupper(p.casepatrn[1])}
     ELSE {tolower(p.casepatrn[1])})
CompactTable1 == [b \in UNION {OneByte(patterns[q]) : q \in Pids(1, 1)} |->
                     {q \in Pids(1, 1) : b \in OneByte(patterns[q])}]

(* cDF0, the bytes, and the pairs that a longer pattern puts into          *)
(* DirectFilter1, cDF1, ADD_DF_4_plus and ADD_DF_4_1.  A one-byte pattern  *)
(* sets its byte with every second byte in DirectFilter1.                  *)
DirectFilter1 == UNION {PairsAt(patterns[q], FirstPair(Size(patterns[q]))) : q \in Pids(2, Longest)}
cDF1 == UNION {PairsAt(patterns[q], Size(patterns[q]) - 1) : q \in Pids(2, 3)}
ADD_DF_4_1 == UNION {PairsAt(patterns[q], Size(patterns[q]) - 1) : q \in Pids(4, 7)}
ADD_DF_4_plus == ADD_DF_4_1 \cup
    UNION {PairsAt(patterns[q], Size(patterns[q]) - 5) : q \in Pids(8, Longest)}

(* A compact table: for each fragment the pids that have it, and, where    *)
(* there are RECURSIVE_BOUNDARY of them, a second table over the two bytes *)
(* in front of the fragment, which takes the pids longer than it.          *)
TailTable(frags) == [f \in UNION {frags[q] : q \in DOMAIN frags} |-> {q \in DOMAIN frags : f \in frags[q]}]

(* The pairs under which a pattern `extra` bytes longer than its fragment  *)
(* enters the second table; one extra byte leaves the first of the pair    *)
(* open, written -1.                                                       *)
CTPairs(p, extra) ==
    IF extra = 1 THEN {<<-1, Build_pattern(p, flag, 1)>> : flag \in {0, 1}}
    ELSE PairsAt(p, extra - 1)

(* Add_PID_to_2B_CT for one entry.                                         *)
Entry(pids, len) ==
    IF Cardinality(pids) < RECURSIVE_BOUNDARY
    THEN [pid |-> pids, recursive |-> FALSE, second |-> {}]
    ELSE [pid |-> {q \in pids : Size(patterns[q]) = len}, recursive |-> TRUE,
          second |-> UNION {{<<d, q>> : d \in CTPairs(patterns[q], Size(patterns[q]) - len)} :
                                q \in {r \in pids : Size(patterns[r]) > len}}]

CompactTable(table, len) == [f \in DOMAIN table |-> Entry(table[f], len)]

(* The 64-bit fragment of eight bytes: a fourth byte above 127 is sign     *)
(* extended when it is shifted and overwrites the upper four bytes.        *)
fragment_64(t) == IF t[4] >= 128 THEN SubSeq(t, 1, 4) \o <<255, 255, 255, 255>> ELSE t

(* The pids by the last 2, 4 and 8 bytes of their patterns.                *)
CT2_initialization == LET Frag(p) == Variants(p, Size(p) - 1, 2)
                      IN  TailTable([q \in Pids(2, 3) |-> Frag(patterns[q])])
CT4_initialization == LET Frag(p) == Variants(p, Size(p) - 3, 4)
                      IN  TailTable([q \in Pids(4, 7) |-> Frag(patterns[q])])
CT8_initialization == LET Frag(p) == {fragment_64(SubSeq(p.patrn, Size(p) - 7, Size(p)))}
                      IN  TailTable([q \in Pids(8, Longest) |-> Frag(patterns[q])])

(* The same tables after the recursive filtering of their large entries.   *)
CompactTable2 == CompactTable(CT2_initialization, 2)
CompactTable4 == CompactTable(CT4_initialization, 4)
CompactTable8 == CompactTable(CT8_initialization, 8)

DFC_Compile ==
    /\ phase = "adding" /\ patterns # <<>>
    /\ phase' = "compiled"
    /\ dfc' = [on |-> TRUE, cDF0 |-> DOMAIN CompactTable1, DF1 |-> DirectFilter1,
               cDF1 |-> cDF1, DF4plus |-> ADD_DF_4_plus, DF41 |-> ADD_DF_4_1,
               CT1 |-> CompactTable1, CT2 |-> CompactTable2,
               CT4 |-> CompactTable4, CT8 |-> CompactTable8]
    /\ UNCHANGED <<added, patterns, text, reports, matches>>
------------------------------------------------------------------------------
(* len bytes from byte k of a buffer on; a negative k is in front of it.   *)
Bytes(t, k, len) ==
    [j \in 1..len |-> LET m == k + j - 1 IN IF m < 0 THEN t.before[m + 4] ELSE t.buf[m + 1]]

(* The comparison of `len` bytes at k with the head of a pattern.          *)
HeadMatches(p, t, k, len) ==
    IF len <= 0 THEN TRUE
    ELSE IF p.nocase THEN my_strncasecmp(Bytes(t, k, len), SubSeq(p.casepatrn, 1, len))
    ELSE my_strncmp(Bytes(t, k, len), SubSeq(p.casepatrn, 1, len))

(* The pids of the second table of an entry for the pair in front of i.    *)
Second(entry, t, i) ==
    {q \in DOMAIN patterns : \E d \in {Bytes(t, i - 2, 2), <<-1, Bytes(t, i - 1, 1)[1]>>} :
                                <<d, q>> \in entry.second}

Verification_CT1(t, i) ==
    LET b == t.buf[i + 1] IN IF b \in DOMAIN dfc.CT1 THEN dfc.CT1[b] ELSE {}

Verification_CT2(t, i) ==
    LET f == Bytes(t, i, 2) e == dfc.CT2[f]
        Extra(q) == Size(patterns[q]) - 2
    IN  IF f \notin DOMAIN dfc.CT2 THEN {}
        ELSE IF ~e.recursive
        THEN {q \in e.pid : i >= Extra(q) /\ HeadMatches(patterns[q], t, i - Extra(q), Extra(q))}
        ELSE e.pid \cup Second(e, t, i)

Verification_CT4_7(t, i) ==
    LET f == Bytes(t, i, 4) e == dfc.CT4[f]
        Extra(q) == Size(patterns[q]) - 4
    IN  IF f \notin DOMAIN dfc.CT4 THEN {}
        ELSE IF ~e.recursive
        THEN {q \in e.pid : i >= Extra(q) /\ HeadMatches(patterns[q], t, i - Extra(q), Extra(q))}
        ELSE e.pid \cup {q \in Second(e, t, i) :
                            HeadMatches(patterns[q], t, i - Extra(q), Extra(q) - 2)}

Verification_CT8_plus(t, i) ==
    LET f == fragment_64(ConvertCaseEx(Bytes(t, i, 8))) e == dfc.CT8[f]
        Extra(q) == Size(patterns[q]) - 8
    IN  IF f \notin DOMAIN dfc.CT8 THEN {}
        ELSE {q \in e.pid \cup Second(e, t, i) :
                i >= Extra(q) /\ HeadMatches(patterns[q], t, i - Extra(q), Size(patterns[q]))}

Found(pids, from, len) == {<<q, from + len - Size(patterns[q])>> : q \in pids}

(* What position i of a buffer reports, once DirectFilter1 has its pair.   *)
Progressive_Filtering(t, i) ==
    LET rest_len == Len(t.buf) - i
        next == Bytes(t, i + 2, 2)
    IN  Found(Verification_CT1(t, i), i, 1)
        \cup (IF Bytes(t, i, 2) \in dfc.cDF1 THEN Found(Verification_CT2(t, i), i, 2) ELSE {})
        \cup (IF rest_len >= 4 /\ next \in dfc.DF41
              THEN Found(Verification_CT4_7(t, i), i, 4) ELSE {})
        \cup (IF rest_len >= 8 /\ next \in dfc.DF4plus
              THEN Found(Verification_CT8_plus(t, i), i, 8) ELSE {})

InDirectFilter1(t, i) == Bytes(t, i, 2) \in dfc.DF1 \/ t.buf[i + 1] \in dfc.cDF0

(* One search of the compiled tables, which it does not change: another    *)
(* search would start from the same state.                                 *)
DFC_Search(t) ==
    LET last == Len(t.buf) - 1
        At(i) == IF i = last THEN Found(Verification_CT1(t, i), i, 1)
                 ELSE IF InDirectFilter1(t, i) THEN Progressive_Filtering(t, i) ELSE {}
    IN  /\ phase = "compiled"
        /\ phase' = "searched" /\ text' = t
        /\ reports' = UNION {At(i) : i \in 0..last}
        /\ matches' = MapThenSumSet(LAMBDA i : Cardinality(At(i)), 0..last)
        /\ UNCHANGED <<added, patterns, dfc>>

DFC_FreeStructure ==
    /\ phase \in {"compiled", "searched"}
    /\ phase' = "freed" /\ dfc' = NoDfc /\ patterns' = <<>>
    /\ UNCHANGED <<added, text, reports, matches>>
Freed == phase = "freed" /\ UNCHANGED vars
------------------------------------------------------------------------------
Next ==
    \/ \E e \in Pool, zeroBehind \in BOOLEAN : DFC_AddPattern(e, Len(added), zeroBehind)
    \/ DFC_Compile
    \/ \E buf \in Texts, b \in Before : DFC_Search([before |-> b, buf |-> buf])
    \/ DFC_FreeStructure
    \/ Freed

Spec == Init /\ [][Next]_vars
------------------------------------------------------------------------------
Occurs(pat, nocase, t, k) ==
    LET s == Bytes(t, k, Len(pat)) IN IF nocase THEN my_strncasecmp(s, pat) ELSE s = pat

(* DFC_InitHashLookup compares C strings and no nocase flag, so the call   *)
(* n of DFC_AddPattern keeps its own pattern only if no earlier, different *)
(* call is equal to it in that sense.                                      *)
Kept(n) == \A m \in 1..(n - 1) :
    \/ added[m].pat = added[n].pat /\ added[m].nocase = added[n].nocase
    \/ CString(added[m].pat) # CString(added[n].pat)
    \/ DFC_InitHashRaw(added[m].pat) # DFC_InitHashRaw(added[n].pat)

(* DFC_Search against the definition of a match: through all filters,      *)
(* tables and second tables, every occurrence of every kept pattern in the *)
(* buffer is reported with its sid, and whatever is reported does occur.   *)
(* The second tables of the 2-3 and 4-7 byte patterns are entered without  *)
(* the comparison with starting_point, so such an occurrence may begin in  *)
(* front of the buffer.                                                    *)
FindsExactly ==
    phase = "searched" =>
        /\ \A n \in DOMAIN added : Kept(n) =>
              \A k \in 0..(Len(text.buf) - Len(added[n].pat)) :
                  Occurs(added[n].pat, added[n].nocase, text, k) =>
                      \E r \in reports : r[2] = k /\ added[n].sid \in patterns[r[1]].sids
                                         /\ patterns[r[1]].casepatrn = added[n].pat
        /\ \A r \in reports :
              /\ Occurs(patterns[r[1]].casepatrn, patterns[r[1]].nocase, text, r[2])
              /\ r[2] < 0 => Size(patterns[r[1]]) \in {3, 5, 6, 7}
        /\ matches = Cardinality(reports)
==============================================================================
