---------------------------- MODULE EventPattern ----------------------------
(***************************************************************************)
(* Subscription patterns: internal/core/events/pattern.go, and its mirror  *)
(* in the browser, web/src/ui/pattern.ts.                                  *)
(*                                                                         *)
(* A pattern and an event type are sequences of segments.  A matcher's     *)
(* recursion is a function on what is left of the pattern: its value is    *)
(* the set of the rests of the type for which the code returns true.  The  *)
(* behaviours are those of one listener: it is                             *)
(* registered under a pattern, events of every type come, and it may be    *)
(* registered again under another pattern.                                 *)
(***************************************************************************)
EXTENDS Integers, Sequences, SequencesExt

CONSTANTS
    Segments,    \* literal segments
    MaxPattern,  \* bound: segments of a pattern
    MaxType      \* bound: segments of a type

One == "*"    \* exactly one segment
Many == "**"  \* zero or more segments

ASSUME PatternAssumption ==
    /\ Segments \cap {One, Many} = {}
    /\ MaxPattern \in Nat \ {0} /\ MaxType \in Nat \ {0, 1}

(* CompilePattern: at least one segment, names and wildcards. *)
Patterns == UNION {[1..n -> Segments \cup {One, Many}] : n \in 1..MaxPattern}

(* validateType: at least two segments, names only. *)
EventTypes == UNION {[1..n -> Segments] : n \in 2..MaxType}

VARIABLES
    pattern,  \* what the listener asked for
    event     \* the type of the event at hand

patternVars == <<pattern, event>>

PatternTypeOK == pattern \in Patterns /\ event \in EventTypes

PatternInit == PatternTypeOK

(* subscribe of the stream in the browser. *)
Listen == pattern' \in Patterns /\ UNCHANGED event

PublishTyped == event' \in EventTypes /\ UNCHANGED pattern

PatternNext == Listen \/ PublishTyped

PatternSpec == PatternInit /\ [][PatternNext]_patternVars

-----------------------------------------------------------------------------
(* The server's matcher. *)

(* How many segments ** may take. *)
Splits(typ) == 0..Len(typ)

(* matchSegments: slices of the pattern and of the type, walked together. *)
MatchSegments(pat, typ) ==
    LET matched[p \in Suffixes(pat)] ==
          IF p = <<>> THEN {<<>>}
          ELSE LET rest == matched[Tail(p)] IN
            IF Head(p) = Many
            THEN {t \in Suffixes(typ) : \/ Tail(p) = <<>>
                                        \/ \E i \in Splits(t) : SubSeq(t, i + 1, Len(t)) \in rest}
            ELSE {t \in Suffixes(typ) : t # <<>> /\ Head(p) \in {One, Head(t)} /\ Tail(t) \in rest}
    IN  typ \in matched[pat]

(* sqlPrefix: the literal segments before the first wildcard. *)
LiteralPrefix(pat) ==
    LET wild == {i \in 1..Len(pat) : pat[i] \notin Segments}
    IN  IF wild = {} THEN pat ELSE SubSeq(pat, 1, Min(wild) - 1)

(* The WHERE clause of Query: the prefix itself or something under it. *)
PassesFilter(pat, typ) == LiteralPrefix(pat) = <<>> \/ IsPrefix(LiteralPrefix(pat), typ)

-----------------------------------------------------------------------------
(* The browser's matcher keeps two positions and slices only at **; a      *)
(* slice is named by the position it starts at.                            *)

ClientFromStart(t, typ) == 0..Len(typ)  \* mutant: the split starts over

ClientSplits(t, typ) == t..Len(typ)

ClientMatch(pat, typ) ==
    LET matched[p \in 0..Len(pat)] ==
          IF p = Len(pat) THEN {Len(typ)}
          ELSE LET rest == matched[p + 1] IN
            IF pat[p + 1] = Many
            THEN {t \in 0..Len(typ) : p + 1 = Len(pat) \/ \E i \in ClientSplits(t, typ) : i \in rest}
            ELSE {t \in 0..Len(typ) : t < Len(typ) /\ pat[p + 1] \in {One, typ[t + 1]} /\ t + 1 \in rest}
    IN  0 \in matched[0]

-----------------------------------------------------------------------------
(* Properties. *)

(* What a pattern means, without an algorithm: the type can be cut into one *)
(* piece per pattern segment, each of a kind the segment allows.            *)
Fits(seg, piece) == seg = Many \/ (Len(piece) = 1 /\ seg \in {One, piece[1]})

Matches(pat, typ) ==
    \E cut \in [0..Len(pat) -> 0..Len(typ)] :
        /\ cut[0] = 0 /\ cut[Len(pat)] = Len(typ)
        /\ \A i \in 1..Len(pat) :
              /\ cut[i - 1] <= cut[i]
              /\ Fits(pat[i], SubSeq(typ, cut[i - 1] + 1, cut[i]))

(* The recursion with its early returns decides exactly that. *)
MatchIsExact == MatchSegments(pattern, event) <=> Matches(pattern, event)

(* The browser routes an event to the same listeners the server would. *)
ClientAgrees == ClientMatch(pattern, event) <=> MatchSegments(pattern, event)

(* The filter Query puts into SQL never excludes a type that matches. *)
FilterIsNecessary == MatchSegments(pattern, event) => PassesFilter(pattern, event)

(* The server's recursion, the browser's and the SQL filter agree with what  *)
(* a pattern means.                                                          *)
PatternsAgree == MatchIsExact /\ ClientAgrees /\ FilterIsNecessary
=============================================================================
