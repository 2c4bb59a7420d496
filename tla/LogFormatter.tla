---------------------------- MODULE LogFormatter ----------------------------
(***************************************************************************)
(* LogFormatter: the parser of patterns, over six kinds of characters: the *)
(* percent sign, a letter that names an item ("m"), one that does not      *)
(* ("x"), the braces, and any other ("_").                                 *)
(***************************************************************************)
EXTENDS Integers, Sequences, SequencesExt, FiniteSetsExt

CONSTANTS MaxPattern, MaxReset      \* lengths of patterns, at first and in reset()

ASSUME FormatterAssumption == MaxPattern \in Nat /\ MaxReset \in Nat

VARIABLES
    items,          \* m_items: literals and items, with their formats
    error,          \* m_error
    patterns        \* ghost: the patterns given so far

formatVars == <<items, error, patterns>>

Chars == {"%", "m", "x", "{", "}", "_"}
Patterns(n) == UNION {[1 .. k -> Chars] : k \in 0 .. n}

Literal(str) == [kind |-> 0, str |-> str, fmt |-> <<>>]
Item(str, fmt) == [kind |-> 1, str |-> str, fmt |-> fmt]
PatternError == [kind |-> 2, str |-> <<>>, fmt |-> <<>>]
Known(item) == item.kind # 1 \/ item.str = <<"m">>

\* The first place from i on with a character of cs, or the end
FirstOf(p, i, cs) == Min({j \in i .. Len(p) : p[j] \in cs} \union {Len(p) + 1})

\* The inner loop of init() at the percent sign p[i]: the name runs up to a character that
\* is neither a letter nor a brace, or to "{" and its format then to "}".
Directive(p, i) ==
    LET stop == FirstOf(p, i + 1, Chars \ {"m", "x", "{", "}"})
        brace == FirstOf(p, i + 1, {"{"})
        close == FirstOf(p, brace + 1, {"}"}) IN
    IF brace > stop \/ brace > Len(p)
    THEN [ok |-> TRUE, item |-> Item(SubSeq(p, i + 1, stop - 1), <<>>), next |-> stop]
    ELSE [ok |-> close <= Len(p), next |-> close + 1,
          item |-> Item(SubSeq(p, i + 1, brace - 1), SubSeq(p, brace + 1, close - 1))]

Flush(nstr) == IF nstr = <<>> THEN <<>> ELSE <<Literal(nstr)>>

\* One round of the loop of init().  A format that is not closed puts its mark in front of
\* the text that is waiting in nstr, and the rest is text.  The second of two percent signs
\* is looked at again.
Round(p, s) ==
    IF s.i > Len(p) THEN s
    ELSE IF p[s.i] # "%" \/ (s.i < Len(p) /\ p[s.i + 1] = "%")
         THEN [i |-> s.i + 1, nstr |-> Append(s.nstr, p[s.i]), vec |-> s.vec]
    ELSE LET d == Directive(p, s.i) IN
         IF d.ok THEN [i |-> d.next, nstr |-> <<>>, vec |-> s.vec \o Flush(s.nstr) \o <<d.item>>]
         ELSE [i |-> s.i + 1, nstr |-> s.nstr, vec |-> Append(s.vec, PatternError)]

\* Every round takes a character or more: Len(p) of them see the end.
Parse(p) ==
    LET s[k \in 0 .. Len(p)] == IF k = 0 THEN [i |-> 1, nstr |-> <<>>, vec |-> <<>>] ELSE Round(p, s[k - 1])
        last == s[Len(p)]
    IN last.vec \o Flush(last.nstr)

\* Mutant: the text in front of an item is not kept.
ItemsOnly(p) == SelectSeq(Parse(p), LAMBDA item : item.kind # 0)

Items(p) == Parse(p)

FormatInit == items = <<>> /\ error = FALSE /\ patterns = <<>>

\* The constructor, and reset(), which runs init() again and clears nothing first.
Format(p) ==
    /\ patterns = <<>> \/ (Len(patterns) = 1 /\ Len(patterns[1]) <= MaxReset /\ Len(p) <= MaxReset)
    /\ patterns' = Append(patterns, p)
    /\ items' = items \o Items(p)
    /\ error' = (error \/ \E i \in DOMAIN items' : ~Known(items'[i]) \/ items'[i].kind = 2)

FormatNext == \E p \in Patterns(MaxPattern) : Format(p)

FormatSpec == FormatInit /\ [][FormatNext]_formatVars

-----------------------------------------------------------------------------
(* Properties                                                                *)

Spell(item) ==
    IF item.kind = 0 THEN item.str
    ELSE IF item.kind = 1
    THEN <<"%">> \o item.str \o (IF item.fmt = <<>> THEN <<>> ELSE <<"{">> \o item.fmt \o <<"}">>)
    ELSE <<>>

Has(p, a, b) == \E i \in 1 .. Len(p) - 1 : p[i] = a /\ p[i + 1] = b

\* A formatter without an error spells out every pattern it was ever given, character by
\* character and in order: what reset() replaces is still there (an empty format aside).
PatternsSpelled ==
    ~error /\ (\A k \in DOMAIN patterns : ~Has(patterns[k], "{", "}")) =>
        FlattenSeq([i \in DOMAIN items |-> Spell(items[i])]) = FlattenSeq(patterns)

\* The patterns without braces that are accepted are those in which each percent sign, the
\* second of two as well, is followed by another, or by the letter of an item that no letter
\* follows.  "%%" is no escape: init() copies the first sign but looks at the second again,
\* so that "%%" alone is refused and "%%m" is a percent sign and an item.
AcceptedExactly ==
    LET p == patterns[1]
        good(i) == i < Len(p) /\ (p[i + 1] = "%" \/
                     (p[i + 1] = "m" /\ (i + 2 <= Len(p) => p[i + 2] \in {"%", "_"}))) IN
    Len(patterns) = 1 /\ (\A i \in DOMAIN p : p[i] \notin {"{", "}"}) =>
        (~error <=> \A i \in DOMAIN p : p[i] = "%" => good(i))

\* What init() makes of a pattern: which ones it refuses, and that the rest are spelled out.
FormatterExact == PatternsSpelled /\ AcceptedExactly
=============================================================================
