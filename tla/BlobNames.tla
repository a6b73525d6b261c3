------------------------------- MODULE BlobNames -------------------------------
(***************************************************************************)
(* blobify_filename() (clients/azure_blobs.py), which filters the name of  *)
(* a blob.  A character is one of the kinds the function tells apart.      *)
(***************************************************************************)
EXTENDS Naturals, Sequences
LOCAL INSTANCE FiniteSetsExt
LOCAL INSTANCE SequencesExt

CONSTANT NameLimit  \* BLOB_NAME_CHAR_LIMIT

ASSUME NameAssumption == NameLimit \in Nat \ {0}

\*   disallowed  ~, # and \         reserved  what quote() escapes
\*   slash       ends a path segment; quote() leaves it as it is
Character == {"plain", "dot", "slash", "space", "disallowed", "reserved"}

\* An escape is a percent sign and two digits; quote() leaves the others as they are.
Escape == <<"percent", "digit", "digit">>

\* str.strip()
Strip(s) ==
    LET ink == {i \in DOMAIN s : s[i] # "space"}
    IN  IF ink = {} THEN << >> ELSE SubSeq(s, Min(ink), Max(ink))

\* DISALLOWED_CHARS_PAT.sub("", s)
Allowed(s) == SelectSeq(s, LAMBDA c : c # "disallowed")

ChopStartingDot(s) == IF s # << >> /\ s[1] = "dot" THEN Tail(s) ELSE s

ChopTrailingDot(s) == IF s # << >> /\ s[Len(s)] = "dot" THEN SubSeq(s, 1, Len(s) - 1) ELSE s

\* urllib.parse.quote()
Quote(s) ==
    FlattenSeq([i \in DOMAIN s |-> IF s[i] \in {"space", "reserved"} THEN Escape ELSE <<s[i]>>])

Cut(s) == IF Len(s) > NameLimit THEN SubSeq(s, 1, NameLimit) ELSE s

\* Mutant: dots are chopped before the name is stripped.
FilteredDotsFirst(s) == Allowed(Strip(ChopTrailingDot(ChopStartingDot(s))))

\* The name after all that is done before quote().
Filtered(s) == ChopTrailingDot(ChopStartingDot(Allowed(Strip(s))))

BlobifyFilename(s, quoting) == Cut(IF quoting THEN Quote(Filtered(s)) ELSE Filtered(s))

-----------------------------------------------------------------------------
VARIABLES
    given,   \* the name a caller passes
    quoted,  \* quote_name
    safe     \* the name it gets; empty before the call

nameVars == <<given, quoted, safe>>

\* Bound: names of up to NameLimit + 1 characters.
RawName == UNION {[1..n -> Character] : n \in 0..NameLimit + 1}

NameInit == given \in RawName /\ quoted \in BOOLEAN /\ safe = << >>

Blobify ==
    /\ safe' = BlobifyFilename(given, quoted)
    /\ UNCHANGED <<given, quoted>>

NameSpec == NameInit /\ [][Blobify]_nameVars

-----------------------------------------------------------------------------
(* Properties *)

EndsWith(s, C) == s # << >> /\ s[Len(s)] \in C

\* No path segment but the last one ends with a dot; where a dot may stand is in I.
SegmentsEndWell(s, I) ==
    \A i \in I : s[i] = "dot" /\ i < Len(s) => s[i + 1] # "slash"

\* What lines 40-53 ask of a name, but for the number of its segments.
Proper(s) ==
    /\ s # << >> /\ Len(s) <= NameLimit
    /\ \A i \in DOMAIN s : s[i] # "disallowed"
    /\ ~EndsWith(s, {"dot", "slash"})
    /\ SegmentsEndWell(s, DOMAIN s)

\* A quoted name in which every escape is whole.
WholeEscapes(s) ==
    \A i \in DOMAIN s : s[i] = "percent" => i + 2 <= Len(s)

\* Some part of s is left when dots and spaces are taken from its ends.
HasText(s) == \E i \in DOMAIN s : s[i] \in {"plain", "reserved"}

\* The filter takes one dot from the start and one from the end, and no slash: the rest
\* is up to the caller.
ChopsSuffice(s) ==
    /\ ~EndsWith(s, {"slash"})
    /\ EndsWith(s, {"dot"}) /\ Len(s) > 1 => s[Len(s) - 1] \notin {"dot", "slash"}
    /\ SegmentsEndWell(s, 2..Len(s))

\* azure_blobs.py:57-62: the name returned is what lines 40-53 ask for, and its escapes
\* are whole, if some text is in it, one chopped dot at each end is enough once what is
\* disallowed is out, and nothing has to be cut off: any of these may spoil it.  A name
\* that is as asked for, with no space at its ends and no dot in front, comes back as it is.
SafeNameIsProper ==
    safe # << >> =>
        LET whole == IF quoted THEN Quote(Filtered(given)) ELSE Filtered(given)
        IN  /\ HasText(given) /\ ChopsSuffice(Allowed(Strip(given))) /\ Len(whole) <= NameLimit
               => Proper(safe) /\ WholeEscapes(safe)
            /\ Proper(given) /\ given = Strip(given) /\ given[1] # "dot" /\ ~quoted
               => safe = given
=============================================================================
