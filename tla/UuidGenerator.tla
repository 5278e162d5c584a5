--------------------------- MODULE UuidGenerator ----------------------------
(***************************************************************************)
(* Identifiers of songs: CUUIDGenerator makes them, getSongUIDOutOfURI()   *)
(* of the server finds them in a request.                                  *)
(*                                                                         *)
(* Of a text only its length and the places it is cut at matter here.  Of  *)
(* the random numbers it matters which of them the rejection of            *)
(* getBoundedRandValue() lets through, in words of any number of values.   *)
(***************************************************************************)
EXTENDS Integers, FiniteSets

CONSTANTS
  Words,        \* how many values a word has, 2^32 in the code
  Templates,    \* lengths of the template string
  Requests,     \* values of nRequiredLen
  Gaps          \* lengths of what stands before and after an identifier in a URI

ASSUME UuidAssumption ==
  /\ Words \in Nat \ {0}
  /\ Templates \subseteq 2..Words /\ Requests \subseteq Nat /\ Gaps \subseteq Nat

Word == 0..(Words - 1)

DEFAULT_UUID_STRING_LEN == 32       \* 2 * MD5_DIGEST_LENGTH
SystemLength == 36 - 4              \* uuid_unparse() without its dashes
TimeLength   == 16                  \* microseconds since 1970
Types == SUBSET {"SYSTEM", "RANDOM", "TIME"}

VARIABLES
  pc,                   \* where the call is
  template,             \* length of the template string
  range, x, t,          \* of getBoundedRandValue()
  index,                \* the character it has chosen, -1 before
  type, required,       \* arguments of getNewUUID()
  length,               \* of sUUID
  uri,                  \* what a client sends
  found                 \* what the server takes out of it

vars == <<pc, template, range, x, t, index, type, required, length, uri, found>>
randVars == <<template, range, x, t, index>>
uuidVars == <<type, required, length>>
uriVars  == <<uri, found>>

\* A URI with an identifier in it: how many characters stand before it, how
\* many it has, how many follow, and where in the URI "uid=" occurs first.
uriTag == 4                         \* length of "uid="
npos   == -1
NoUri  == [before |-> 0, uid |-> 0, after |-> 0, tag |-> npos]

\* What is taken out of it; "N/A" is a text of its own.
None == [from |-> 0, length |-> 0]
NotAvailable == [from |-> npos, length |-> 3]

Init ==
  /\ \/ pc = "draw" /\ template \in Templates /\ type = {} /\ required = 0
     \/ pc = "system" /\ template = 0 /\ type \in Types /\ required \in Requests
  /\ range = IF template = 0 THEN 0 ELSE template - 1
  /\ x = 0 /\ t = 0 /\ index = -1
  /\ length = 0
  /\ uri = NoUri /\ found = None

Goes(from, to) == pc = from /\ pc' = to

-----------------------------------------------------------------------------
(* getBoundedRandValue(), a character of getRandomStringFast().            *)

Low(y)  == (y * range) % Words
High(y) == (y * range) \div Words

Draw ==
  /\ Goes("draw", "test")
  /\ x' \in Word
  /\ UNCHANGED <<template, range, t, index, uuidVars, uriVars>>

\* Mutant: -range is computed in a signed type.
ThresholdSigned == -range

\* Mutant: the last subtraction is forgotten.
ThresholdOnce ==
  LET u == (Words - range) % Words IN IF u >= range THEN u - range ELSE u

\* -range in a word, reduced modulo range.
Threshold ==
  LET u == (Words - range) % Words
      v == u - range
  IN  IF u < range THEN u ELSE IF v < range THEN v ELSE v % range

Keep ==
  /\ pc' = "chosen" /\ index' = High(x)

\* The division is only made when the low word is below the range.
Test ==
  /\ pc = "test"
  /\ \/ Low(x) >= range /\ Keep /\ UNCHANGED t
     \/ Low(x) < range /\ pc' = "loop" /\ t' = Threshold /\ UNCHANGED index
  /\ UNCHANGED <<template, range, x, uuidVars, uriVars>>

Loop ==
  /\ pc = "loop"
  /\ \/ Low(x) < t /\ x' \in Word /\ UNCHANGED <<pc, index>>
     \/ Low(x) >= t /\ Keep /\ UNCHANGED x
  /\ UNCHANGED <<template, range, t, uuidVars, uriVars>>

-----------------------------------------------------------------------------
(* getNewUUID().                                                           *)

Adds(from, to, kind, n) ==
  /\ Goes(from, to)
  /\ length' = IF kind \in type THEN length + n ELSE length
  /\ UNCHANGED <<type, required, randVars, uriVars>>

Parts ==
  \/ Adds("system", "random", "SYSTEM", SystemLength)
  \/ Adds("random", "time", "RANDOM", required)
  \/ Adds("time", "fit", "TIME", TimeLength)

Fitted(n) ==
  /\ Goes("fit", "made") /\ length' = n
  /\ UNCHANGED <<type, required, randVars, uriVars>>

\* Longer than an MD5: padded with random characters, or shuffled and cut;
\* otherwise the MD5 of the text, however short the required length is.
Fit ==
  \/ required > DEFAULT_UUID_STRING_LEN /\ length < required
     /\ Fitted(length + (required - length))
  \/ required > DEFAULT_UUID_STRING_LEN /\ length >= required /\ Fitted(required)
  \/ required <= DEFAULT_UUID_STRING_LEN /\ Fitted(DEFAULT_UUID_STRING_LEN)

-----------------------------------------------------------------------------
(* The way of an identifier through a request.                             *)

\* Where "uid=" may begin first: at the end of what stands before the
\* identifier, as it should, earlier, after the identifier, or nowhere.  It
\* is no part of an identifier, which has letters and digits only.
TagPlaces(b, a) ==
  {npos} \cup (0..(b - uriTag)) \cup ((b + length)..(b + length + a - uriTag))

\* A client asks with what the list has told it, in a URI of its own making.
Ask ==
  /\ Goes("made", "asked")
  /\ \E b, a \in Gaps : \E p \in TagPlaces(b, a) :
       uri' = [before |-> b, uid |-> length, after |-> a, tag |-> p]
  /\ UNCHANGED <<randVars, uuidVars, found>>

Shorter(m, n) == IF m < n THEN m ELSE n

\* substr(pos, n) of the URI.
Substr(pos, n) ==
  [from |-> pos, length |-> Shorter(n, uri.before + uri.uid + uri.after - pos)]

\* Mutant: the identifier is looked for where its tag begins.
ExtractTag ==
  /\ Goes("asked", "found")
  /\ \/ uri.tag = npos /\ found' = NotAvailable
     \/ uri.tag # npos /\ found' = Substr(uri.tag, uri.tag + 32)
  /\ UNCHANGED <<randVars, uuidVars, uri>>

\* getSongUIDOutOfURI(): URI.find("uid=") gives the first occurrence, and the
\* number of characters cut out counts from the beginning of the URI.
Extract ==
  /\ Goes("asked", "found")
  /\ \/ uri.tag = npos /\ found' = NotAvailable
     \/ /\ uri.tag # npos
        /\ LET begPos == uri.tag + uriTag
               UIDsize == 32
           IN  found' = Substr(begPos, begPos + UIDsize)
  /\ UNCHANGED <<randVars, uuidVars, uri>>

Next == Draw \/ Test \/ Loop \/ Parts \/ Fit \/ Ask \/ Extract

Spec == Init /\ [][Next]_vars

-----------------------------------------------------------------------------
(* Properties.                                                             *)

Places == {"draw", "test", "loop", "chosen", "system", "random", "time", "fit", "made",
           "asked", "found"}

\* Types; the chosen character is one of the template, and never the last.
TypeOK ==
  /\ pc \in Places
  /\ template \in Templates \cup {0} /\ range \in Word /\ x \in Word /\ t \in Word
  /\ index = -1 \/ index \in 0..(template - 2)
  /\ type \in Types /\ required \in Requests \cup {0} /\ length \in Nat
  /\ uri \in [before : Nat, uid : Nat, after : Nat, tag : Nat \cup {npos}]
  /\ found \in [from : Nat \cup {npos}, length : Nat]

\* The words that lead to a choice.
Kept == {y \in Word : Low(y) >= range \/ Low(y) >= t}

\* The rejection is exact: every index below the range is the choice of as
\* many words as every other, and of at least one.
Unbiased ==
  pc = "loop" =>
    \A r \in 0..(range - 1) :
      Cardinality({y \in Kept : High(y) = r}) = Words \div range

\* The server finds the song a client asks for by an identifier that was made
\* with a length of at most 32 exactly when "uid=" stands before it, nowhere
\* earlier in the URI, and nothing follows: "?guid=7&uid=..." fails although
\* the identifier is the last of it, and so does "?uid=...&v=1".
FoundIfFirstAndLast ==
  pc = "found" /\ required <= DEFAULT_UUID_STRING_LEN =>
    (found = [from |-> uri.before, length |-> uri.uid]
       <=> uri.tag + uriTag = uri.before /\ uri.tag # npos /\ uri.after = 0)

=============================================================================
