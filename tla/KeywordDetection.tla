--------------------------- MODULE KeywordDetection ---------------------------
(***************************************************************************)
(* Detector.Detect (keyworddetection.go): each keyword of a list is looked *)
(* up in the tokens of one transcript.  A phrase is its tokens; what       *)
(* tokenize makes of letters, digits and punctuation is left out.  A text  *)
(* may have no token and yet not be blank: punctuation alone.              *)
(***************************************************************************)
EXTENDS Integers, Sequences, SequencesExt, FiniteSetsExt

CONSTANTS
  Words,      \* the tokens
  Keywords,   \* the entries a list may have
  MaxTokens,  \* bound on the length of a transcript
  MaxEntries, \* bound on the length of a list
  Blank       \* a text that is empty but for white space

\* validateList, for what the look-up depends on.
ValidKeyword(kw) ==
  /\ kw.window \in Nat
  /\ \A c \in {kw.phrase} \cup kw.required \cup kw.excluded : c \in Seq(Words) \ {<<>>}

ASSUME KeywordAssumption ==
  /\ \A kw \in Keywords : ValidKeyword(kw)
  /\ MaxTokens \in Nat /\ MaxEntries \in Nat \ {0}

VARIABLES
  tokens,     \* the transcript's tokens, or Blank
  list,       \* the keywords, in the list's order
  configured, \* the list is configured for the channel
  looked,     \* how many keywords have been looked up
  matches,    \* the results
  outcome     \* "none", "error" or "done"

keywordVars == <<tokens, list, configured, looked, matches, outcome>>

\* The places at which the phrase begins in a text.
Occurrences(text, phrase) ==
  {i \in 1 .. Len(text) - Len(phrase) + 1 : SubSeq(text, i, i + Len(phrase) - 1) = phrase}

\* Faulty variant: the window after the keyword is counted from its start.
WindowEnd_FromStart(start, kw) == Min({Len(tokens), start + kw.window})

WindowEnd(start, kw) == Min({Len(tokens), start - 1 + Len(kw.phrase) + kw.window})

\* contextPresent: anywhere, or within the window around some occurrence.
ContextPresent(c, kw) ==
  IF kw.window = 0 THEN Occurrences(tokens, c) # {}
  ELSE \E start \in Occurrences(tokens, kw.phrase) :
         Occurrences(SubSeq(tokens, Max({1, start - kw.window}), WindowEnd(start, kw)), c) # {}

\* Whatever is not resolved is ambiguous.
Evaluate(kw) ==
  LET required == kw.required = {} \/ \E c \in kw.required : ContextPresent(c, kw)
      excluded == \E c \in kw.excluded : ContextPresent(c, kw)
  IN  [phrase |-> kw.phrase,
       state  |-> IF required /\ ~ excluded THEN "matched" ELSE "ambiguous",
       occurrences |-> Cardinality(Occurrences(tokens, kw.phrase))]

-----------------------------------------------------------------------------

\* "an absent evidence class, not a negative result".
Refuse ==
  /\ outcome = "none" /\ tokens = Blank
  /\ outcome' = "error"
  /\ UNCHANGED <<tokens, list, configured, looked, matches>>

LookUp ==
  LET kw == list[looked + 1] IN
  /\ outcome = "none" /\ tokens # Blank /\ configured
  /\ looked < Len(list)
  /\ matches' = IF Occurrences(tokens, kw.phrase) = {} THEN matches
                ELSE Append(matches, Evaluate(kw))
  /\ looked' = looked + 1
  /\ UNCHANGED <<tokens, list, configured, outcome>>

Detected ==
  /\ outcome = "none" /\ tokens # Blank
  /\ configured => looked = Len(list)
  /\ outcome' = "done"
  /\ UNCHANGED <<tokens, list, configured, looked, matches>>

KeywordInit ==
  /\ tokens \in (UNION {[1 .. n -> Words] : n \in 0 .. MaxTokens}) \cup {Blank}
  /\ list \in UNION {[1 .. n -> Keywords] : n \in 1 .. MaxEntries}
  /\ configured \in BOOLEAN
  /\ looked = 0 /\ matches = <<>>
  /\ outcome = "none"

KeywordNext == Refuse \/ LookUp \/ Detected

KeywordSpec == KeywordInit /\ [][KeywordNext]_keywordVars

-----------------------------------------------------------------------------
(* Properties, said of places in the whole transcript.                     *)

At(i, phrase) == \A k \in DOMAIN phrase : i + k - 1 \in DOMAIN tokens /\ tokens[i + k - 1] = phrase[k]

\* The context lies within window tokens of the keyword at i, on either side.
Near(c, kw, i) ==
  \E j \in DOMAIN tokens :
    /\ At(j, c)
    /\ kw.window > 0 => /\ j >= i - kw.window
                        /\ j + Len(c) <= i + Len(kw.phrase) + kw.window

Heard(phrase) == {i \in DOMAIN tokens : At(i, phrase)}

Firm(kw) ==
  /\ kw.required = {} \/ \E c \in kw.required, i \in Heard(kw.phrase) : Near(c, kw, i)
  /\ \A c \in kw.excluded, i \in Heard(kw.phrase) : ~ Near(c, kw, i)

\* What the transcript says of a keyword.
Says(match, kw) ==
  /\ match.phrase = kw.phrase
  /\ match.state = "matched" <=> Firm(kw)
  /\ match.occurrences = Cardinality(Heard(kw.phrase))

\* "never silently promoted to a firm match and never silently dropped": the
\* results are those of just the keywords that occur, in the list's order, and
\* one is firm exactly when its context, at the text's edges too, allows it.
ContextDecides ==
  outcome = "done" =>
    \E of \in [DOMAIN matches -> DOMAIN list] :
      /\ {of[m] : m \in DOMAIN matches}
           = {n \in DOMAIN list : configured /\ Heard(list[n].phrase) # {}}
      /\ \A m, n \in DOMAIN matches : m < n => of[m] < of[n]
      /\ \A m \in DOMAIN matches : Says(matches[m], list[of[m]])
=============================================================================
