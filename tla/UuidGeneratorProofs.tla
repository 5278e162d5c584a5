------------------------ MODULE UuidGeneratorProofs -------------------------
(***************************************************************************)
(* What UuidGenerator guarantees for words of any number of values, every  *)
(* template, every required length and every URI.                          *)
(***************************************************************************)
EXTENDS UuidGenerator, FiniteSetTheorems, TLAPS

\* A character is drawn from a template, an identifier made without one.
Drawing == {"draw", "test", "loop", "chosen"}
DrawFits ==
  /\ pc \in Drawing => range = template - 1 /\ range \in Nat \ {0}
  /\ pc = "loop" => t = Threshold

\* What is short enough has the length of an MD5 once it is made, and that
\* length stands in the URI.
LengthFits ==
  /\ pc \in {"made", "asked", "found"} /\ required <= DEFAULT_UUID_STRING_LEN =>
       length = DEFAULT_UUID_STRING_LEN
  /\ pc \in {"asked", "found"} => uri.uid = length
  /\ pc \in {"asked", "found"} /\ uri.tag # npos =>
       uri.tag + uriTag <= uri.before + uri.uid + uri.after
  /\ pc = "found" =>
       found = IF uri.tag = npos THEN NotAvailable
               ELSE Substr(uri.tag + uriTag, uri.tag + uriTag + 32)

IInv == TypeOK /\ DrawFits /\ LengthFits

-----------------------------------------------------------------------------
(* Lemmas on products and division.                                        *)

\* Products grow with either factor.
LEMMA Grows ==
  ASSUME NEW n \in Nat, NEW a \in Int, NEW b \in Int, a <= b PROVE a * n <= b * n
  <1>1. (b - a) * n >= 0
    OBVIOUS
  <1> QED BY <1>1

\* Division, by the place of the dividend between two multiples.
LEMMA Division ==
  ASSUME NEW n \in Nat \ {0}, NEW m \in Nat
  PROVE  /\ m \div n \in Nat /\ m % n \in 0..(n - 1)
         /\ m = (m \div n) * n + (m % n)
  OBVIOUS

LEMMA DivisionIsUnique ==
  ASSUME NEW n \in Nat \ {0}, NEW m \in Nat, NEW d \in Nat, NEW s \in 0..(n - 1),
         m = d * n + s
  PROVE  d = m \div n /\ s = m % n
  <1> DEFINE e == m \div n
  <1>1. e \in Nat /\ m % n \in 0..(n - 1) /\ m = e * n + (m % n)
    BY Division
  <1> HIDE DEF e
  <1>2. ~(d < e)
    <2> SUFFICES ASSUME d + 1 <= e PROVE FALSE
      BY <1>1
    <2>1. (d + 1) * n <= e * n
      BY <1>1, Grows
    <2>2. (d + 1) * n = d * n + n
      OBVIOUS
    <2> QED BY <1>1, <2>1, <2>2
  <1>3. ~(e < d)
    <2> SUFFICES ASSUME e + 1 <= d PROVE FALSE
      BY <1>1
    <2>1. (e + 1) * n <= d * n
      BY <1>1, Grows
    <2>2. (e + 1) * n = e * n + n
      BY <1>1
    <2> QED BY <1>1, <2>1, <2>2
  <1>4. d = e
    BY <1>1, <1>2, <1>3
  <1> QED BY <1>1, <1>4 DEF e

\* The least multiple of n that reaches m.
LEMMA Reaches ==
  ASSUME NEW n \in Nat \ {0}, NEW m \in Nat
  PROVE  \E c \in Nat : \A y \in Int : y * n >= m <=> y >= c
  <1> DEFINE k == m + n - 1
             c == k \div n
  <1>0. k \in Nat
    OBVIOUS
  <1>1. c \in Nat /\ k % n \in 0..(n - 1) /\ k = c * n + (k % n)
    <2> HIDE DEF k
    <2> QED BY <1>0, Division
  <1> HIDE DEF c
  <1>2. c * n >= m /\ (c - 1) * n < m
    <2>1. (c - 1) * n = c * n - n
      BY <1>1
    <2> QED BY <1>1, <2>1
  <1>3. ASSUME NEW y \in Int, y >= c PROVE y * n >= m
    <2>1. c * n <= y * n
      BY <1>1, <1>3, Grows
    <2> QED BY <1>1, <1>2, <2>1
  <1>4. ASSUME NEW y \in Int, ~(y >= c) PROVE ~(y * n >= m)
    <2>1. y <= c - 1 /\ c - 1 \in Int
      BY <1>1, <1>4
    <2>2. y * n <= (c - 1) * n
      BY <2>1, Grows
    <2> QED BY <1>1, <1>2, <2>1, <2>2
  <1> QED BY <1>1, <1>3, <1>4

-----------------------------------------------------------------------------
(* Lemmas on words.                                                        *)

\* The high word of a product is below the factor that is no word.
LEMMA HighBounded ==
  ASSUME NEW y \in Word, NEW r \in Nat \ {0}
  PROVE  (y * r) \div Words \in 0..(r - 1)
  BY UuidAssumption DEF Word

\* The threshold is a word, whichever subtractions and divisions are skipped.
LEMMA ThresholdIsWord == ASSUME range \in Word, range # 0 PROVE Threshold \in Word
  <1> DEFINE u == (Words - range) % Words
             v == u - range
  <1>1. range \in Nat \ {0} /\ range < Words /\ Words \in Nat \ {0}
    BY UuidAssumption DEF Word
  <1>2. u \in 0..(Words - 1)
    BY <1>1
  <1>3. u >= range => v \in 0..(Words - 1)
    BY <1>1, <1>2
  <1>4. v \in Int => v % range \in 0..(range - 1)
    BY <1>1
  <1> HIDE DEF u
  <1>5. Threshold = IF u < range THEN u ELSE IF v < range THEN v ELSE v % range
    BY DEF Threshold, u
  <1> QED BY <1>1, <1>2, <1>3, <1>4, <1>5 DEF Word

\* What the skipped division would have left.
LEMMA ThresholdIsRemainder ==
  ASSUME range \in Word, range # 0 PROVE Threshold = Words % range
  <1> DEFINE u == (Words - range) % Words
             v == u - range
  <1>1. range \in Nat \ {0} /\ range < Words /\ Words \in Nat \ {0}
    BY UuidAssumption DEF Word
  <1>2. u = Words - range
    BY <1>1
  <1> HIDE DEF u
  <1>3. CASE u < range
    <2>1. Words = 1 * range + u /\ u \in 0..(range - 1)
      BY <1>1, <1>2, <1>3
    <2>2. u = Words % range
      BY <1>1, <2>1, DivisionIsUnique
    <2> QED BY <1>3, <2>2 DEF Threshold, u
  <1>4. CASE u >= range /\ v < range
    <2>1. Words = 2 * range + v /\ v \in 0..(range - 1)
      BY <1>1, <1>2, <1>4
    <2>2. v = Words % range
      BY <1>1, <2>1, DivisionIsUnique
    <2> QED BY <1>1, <1>2, <1>4, <2>2 DEF Threshold, u
  <1>5. CASE u >= range /\ v >= range
    <2> DEFINE d == v \div range
               s == v % range
    <2>0. v \in Nat /\ Words = v + 2 * range
      BY <1>1, <1>2, <1>5
    <2> HIDE DEF v
    <2>1. d \in Nat /\ s \in 0..(range - 1) /\ v = d * range + s
      BY <1>1, <2>0, Division
    <2> HIDE DEF d, s
    <2>2. (d + 2) * range = d * range + 2 * range
      BY <1>1, <2>1
    <2>3. Words = (d + 2) * range + s /\ d + 2 \in Nat
      BY <1>1, <2>0, <2>1, <2>2
    <2>4. s = Words % range
      BY <1>1, <2>1, <2>3, DivisionIsUnique
    <2> QED BY <1>1, <1>2, <1>5, <2>4 DEF Threshold, u, v, s
  <1> QED BY <1>1, <1>2, <1>3, <1>4, <1>5 DEF v

\* The words that are kept and choose r are those whose product with the range
\* lies between two places as far apart as the multiples of the range that fit
\* a word, so they are an interval of that many words.
LEMMA EqualShares ==
  ASSUME range \in Word, range # 0, t = Threshold, NEW r \in 0..(range - 1)
  PROVE  Cardinality({y \in Kept : High(y) = r}) = Words \div range
  <1> DEFINE q == Words \div range
             m == r * Words + t
  <1>1. range \in Nat \ {0} /\ range < Words /\ Words \in Nat \ {0} /\ r \in Nat
    BY UuidAssumption DEF Word
  <1>2. q \in Nat /\ t \in 0..(range - 1) /\ Words = q * range + t
    BY <1>1, Division, ThresholdIsRemainder
  <1>3. m \in Nat
    BY <1>1, <1>2
  <1> HIDE DEF q, m
  <1>4. PICK c \in Nat : \A y \in Int : y * range >= m <=> y >= c
    BY <1>1, <1>3, Reaches
  <1>5. ASSUME NEW y \in Int PROVE y * range < m + q * range <=> y < c + q
    <2>1. (y - q) * range = y * range - q * range
      BY <1>1, <1>2
    <2>2. (y - q) * range >= m <=> y - q >= c
      BY <1>2, <1>4
    <2>3. y * range \in Int /\ q * range \in Int
      BY <1>1, <1>2
    <2> QED BY <1>2, <1>3, <2>1, <2>2, <2>3
  <1>6. m + q * range = r * Words + Words
    <2>1. r * Words \in Int /\ q * range \in Int
      BY <1>1, <1>2
    <2> QED BY <1>1, <1>2, <2>1 DEF m
  <1>7. ASSUME NEW y \in Word
        PROVE  y \in Kept /\ High(y) = r <=> y \in c..(c + q - 1)
    <2>0. y \in Nat /\ y * range \in Nat
      BY <1>1 DEF Word
    <2>1. /\ High(y) \in Nat /\ Low(y) \in 0..(Words - 1)
          /\ y * range = High(y) * Words + Low(y)
      BY <1>1, <2>0, Division DEF High, Low
    <2>2. y \in Kept <=> Low(y) >= t
      BY <1>1, <1>2, <2>1 DEF Kept
    <2>3. y \in Kept /\ High(y) = r => y * range >= m /\ y * range < r * Words + Words
      BY <1>1, <1>2, <2>1, <2>2 DEF m
    <2>4. ASSUME y * range >= m, y * range < r * Words + Words
          PROVE  High(y) = r /\ Low(y) >= t
      <3> DEFINE s == y * range - r * Words
      <3>1. r * Words \in Int
        BY <1>1
      <3>2. s \in 0..(Words - 1) /\ s >= t /\ y * range = r * Words + s
        BY <1>1, <1>2, <2>0, <2>4, <3>1 DEF m
      <3> HIDE DEF s
      <3>3. r = (y * range) \div Words /\ s = (y * range) % Words
        BY <1>1, <2>0, <3>2, DivisionIsUnique
      <3> QED BY <3>2, <3>3 DEF High, Low
    <2>5. y \in c..(c + q - 1) <=> y * range >= m /\ y * range < r * Words + Words
      BY <1>2, <1>4, <1>5, <1>6, <2>0
    <2> QED BY <2>2, <2>3, <2>4, <2>5
  <1>8. ASSUME NEW y \in c..(c + q - 1) PROVE y \in Word
    <2>1. y \in Nat /\ y * range < r * Words + Words
      BY <1>2, <1>5, <1>6
    <2>2. r * Words + Words <= Words * range
      <3>1. (r + 1) * Words <= range * Words
        BY <1>1, Grows
      <3>2. (r + 1) * Words = r * Words + Words /\ range * Words = Words * range
        BY <1>1
      <3> QED BY <3>1, <3>2
    <2>3. CASE y >= Words
      <3>1. Words * range <= y * range
        BY <1>1, <2>1, <2>3, Grows
      <3>2. y * range \in Int /\ r * Words \in Int /\ Words * range \in Int
        BY <1>1, <2>1
      <3> QED BY <1>1, <2>1, <2>2, <3>1, <3>2
    <2> QED BY <1>1, <2>1, <2>3 DEF Word
  <1>9. {y \in Kept : High(y) = r} = c..(c + q - 1)
    BY <1>7, <1>8 DEF Kept
  <1>10. Cardinality(c..(c + q - 1)) = q
    <2>1. c \in Int /\ c + q - 1 \in Int
      BY <1>2
    <2>2. Cardinality(c..(c + q - 1)) = IF c > c + q - 1 THEN 0 ELSE (c + q - 1) - c + 1
      BY <2>1, FS_Interval
    <2> QED BY <1>2, <2>2
  <1> QED BY <1>9, <1>10 DEF q
-----------------------------------------------------------------------------
LEMMA InitInv == Init => IInv
  <1> SUFFICES ASSUME Init PROVE IInv
    OBVIOUS
  <1> USE UuidAssumption DEF Init
  <1>1. range \in Word /\ 0 \in Word /\ (template # 0 => template \in 2..Words)
    <2>1. CASE template = 0
      BY <2>1 DEF Word
    <2>2. CASE template # 0
      <3>1. template \in 2..Words /\ range = template - 1
        BY <2>2
      <3> QED BY <3>1 DEF Word
    <2> QED BY <2>1, <2>2
  <1>2. TypeOK
    BY <1>1 DEF TypeOK, Places, Types, NoUri, None, npos
  <1>3. DrawFits
    BY <1>1 DEF DrawFits, Drawing
  <1>4. LengthFits
    BY DEF LengthFits
  <1> QED BY <1>2, <1>3, <1>4 DEF IInv

\* getBoundedRandValue().
LEMMA DrawKeeps == ASSUME IInv, Draw \/ Test \/ Loop PROVE IInv'
  <1> USE UuidAssumption DEF IInv, Goes, uuidVars, uriVars
  <1>0. pc \in Drawing /\ range = template - 1 /\ range \in Nat \ {0} /\ range \in Word
        /\ x \in Word
    BY DEF Draw, Test, Loop, Drawing, DrawFits, TypeOK
  <1>1. pc' \in Drawing /\ UNCHANGED <<template, range, type, required, length, uri, found>>
    BY DEF Draw, Test, Loop, Drawing, Keep
  <1>2. High(x) \in 0..(template - 2)
    <2>1. (x * range) \div Words \in 0..(range - 1)
      BY <1>0, HighBounded
    <2>2. range - 1 = template - 2
      BY <1>0 DEF TypeOK
    <2> QED BY <2>1, <2>2 DEF High
  <1>3. Threshold \in Word
    BY <1>0, ThresholdIsWord
  <1>4. x' \in Word /\ t' \in Word /\ (index' = -1 \/ index' \in 0..(template - 2))
    <2>1. CASE Draw
      BY <2>1 DEF Draw, TypeOK
    <2>2. CASE Test
      BY <1>0, <1>2, <1>3, <2>2 DEF Test, Keep, TypeOK
    <2>3. CASE Loop
      BY <1>0, <1>2, <2>3 DEF Loop, Keep, TypeOK
    <2> QED BY <2>1, <2>2, <2>3
  <1>5. TypeOK'
    BY <1>1, <1>4 DEF TypeOK, Drawing, Places
  <1>6. DrawFits' /\ LengthFits'
    <2>1. Threshold' = Threshold
      BY <1>1 DEF Threshold
    <2>2. pc' = "loop" => t' = Threshold
      BY DEF Draw, Test, Loop, Keep, DrawFits
    <2> QED BY <1>0, <1>1, <2>1, <2>2 DEF DrawFits, LengthFits, Drawing
  <1> QED BY <1>5, <1>6

\* getNewUUID().
LEMMA MakeKeeps == ASSUME IInv, Parts \/ Fit PROVE IInv'
  <1> USE DEF IInv, Goes, randVars, uriVars, DEFAULT_UUID_STRING_LEN
  <1>0. required \in Nat /\ length \in Nat
    BY UuidAssumption DEF TypeOK
  <1>1. UNCHANGED <<template, range, x, t, index, type, required, uri, found>>
    BY DEF Parts, Adds, Fit, Fitted
  <1>2. /\ pc' \in {"random", "time", "fit", "made"} /\ length' \in Nat
        /\ pc' = "made" /\ required <= 32 => length' = 32
    <2>1. CASE Parts
      BY <1>0, <2>1 DEF Parts, Adds, SystemLength, TimeLength
    <2>2. CASE Fit
      BY <1>0, <2>2 DEF Fit, Fitted
    <2> QED BY <2>1, <2>2
  <1>3. TypeOK'
    BY <1>1, <1>2 DEF TypeOK, Places
  <1>4. DrawFits' /\ LengthFits'
    BY <1>1, <1>2 DEF DrawFits, Drawing, LengthFits
  <1> QED BY <1>3, <1>4

\* The request.
LEMMA RequestKeeps == ASSUME IInv, Ask \/ Extract PROVE IInv'
  <1> USE UuidAssumption DEF IInv, Goes, randVars, uuidVars
  <1>1. UNCHANGED <<template, range, x, t, index, type, required, length>> /\ length \in Nat
    BY DEF Ask, Extract, TypeOK
  <1>2. CASE Ask
    <2>1. PICK b \in Gaps, a \in Gaps : \E p \in TagPlaces(b, a) :
            uri' = [before |-> b, uid |-> length, after |-> a, tag |-> p]
      BY <1>2 DEF Ask
    <2>2. PICK p \in TagPlaces(b, a) :
            uri' = [before |-> b, uid |-> length, after |-> a, tag |-> p]
      BY <2>1
    <2>3. b \in Nat /\ a \in Nat
      OBVIOUS
    <2>4. p \in Nat \cup {npos} /\ (p # npos => p + uriTag <= b + length + a)
      BY <1>1, <2>2, <2>3 DEF TagPlaces, uriTag, npos
    <2>5. /\ uri' \in [before : Nat, uid : Nat, after : Nat, tag : Nat \cup {npos}]
          /\ uri'.uid = length
          /\ uri'.tag # npos => uri'.tag + uriTag <= uri'.before + uri'.uid + uri'.after
      BY <1>1, <2>2, <2>3, <2>4
    <2>6. TypeOK'
      BY <1>1, <1>2, <2>5 DEF Ask, TypeOK, Places
    <2>7. DrawFits' /\ LengthFits'
      BY <1>1, <1>2, <2>5 DEF Ask, DrawFits, Drawing, LengthFits
    <2> QED BY <2>6, <2>7
  <1>3. CASE Extract
    <2>1. /\ uri \in [before : Nat, uid : Nat, after : Nat, tag : Nat \cup {npos}]
          /\ uri' = uri /\ pc' = "found" /\ pc = "asked"
      BY <1>3 DEF Extract, TypeOK
    <2>2. found' = IF uri.tag = npos THEN NotAvailable
                   ELSE Substr(uri.tag + uriTag, uri.tag + uriTag + 32)
      BY <1>3 DEF Extract
    <2>3. found' \in [from : Nat \cup {npos}, length : Nat]
      <3>1. CASE uri.tag = npos
        BY <2>2, <3>1 DEF NotAvailable
      <3>2. CASE uri.tag # npos
        <4>1. /\ uri.tag \in Nat /\ uri.before + uri.uid + uri.after \in Nat
              /\ uri.tag + uriTag <= uri.before + uri.uid + uri.after
          BY <2>1, <3>2 DEF LengthFits
        <4>2. \A a, b \in Nat : Shorter(a, b) \in Nat
          BY DEF Shorter
        <4>a. PICK total \in Nat : total = uri.before + uri.uid + uri.after
          BY <4>1
        <4>3. ASSUME NEW p \in Nat, NEW n \in Nat, p <= total
              PROVE  Substr(p, n) \in [from : Nat \cup {npos}, length : Nat]
          <5>1. total - p \in Nat
            BY <4>3
          <5>2. Shorter(n, total - p) \in Nat
            BY <4>2, <5>1
          <5>3. Substr(p, n) = [from |-> p, length |-> Shorter(n, total - p)]
            <6>1. uri.before \in Nat /\ uri.uid \in Nat /\ uri.after \in Nat
              BY <2>1
            <6> QED BY <4>a, <6>1 DEF Substr
          <5> QED BY <5>2, <5>3
        <4>4. uri.tag + uriTag \in Nat /\ uri.tag + uriTag + 32 \in Nat
          BY <4>1 DEF uriTag
        <4> QED BY <2>2, <3>2, <4>1, <4>a, <4>3, <4>4
      <3> QED BY <3>1, <3>2
    <2>4. TypeOK'
      BY <1>1, <2>1, <2>3 DEF TypeOK, Places
    <2>5. DrawFits' /\ LengthFits'
      BY <1>1, <1>3, <2>1, <2>2 DEF Extract, DrawFits, Drawing, LengthFits, Substr, Shorter
    <2> QED BY <2>4, <2>5
  <1> QED BY <1>2, <1>3

LEMMA NextInv == IInv /\ [Next]_vars => IInv'
  <1> SUFFICES ASSUME IInv, [Next]_vars PROVE IInv'
    OBVIOUS
  <1>1. CASE UNCHANGED vars
    BY <1>1 DEF vars, IInv, TypeOK, DrawFits, Threshold, LengthFits, Substr, Shorter
  <1> QED BY <1>1, DrawKeeps, MakeKeeps, RequestKeeps DEF Next

-----------------------------------------------------------------------------
(* Theorems.                                                               *)

\* The inductive invariant.
THEOREM Invariance == Spec => []IInv
  <1> QED BY InitInv, NextInv, PTL DEF Spec

\* Types: in particular the character getBoundedRandValue() chooses is always
\* one of the template, for words of any number of values.
THEOREM TypeCorrect == Spec => []TypeOK
  <1>1. IInv => TypeOK
    BY DEF IInv
  <1> QED BY <1>1, Invariance, PTL

\* The rejection of getBoundedRandValue() is exact, for words of any number of
\* values and every template: each index is the choice of as many words as the
\* range goes into a word, however the division is skipped.
THEOREM ChoosesEvenly == Spec => []Unbiased
  <1>1. ASSUME IInv PROVE Unbiased
    <2> SUFFICES ASSUME pc = "loop", NEW r \in 0..(range - 1)
                 PROVE  Cardinality({y \in Kept : High(y) = r}) = Words \div range
      BY DEF Unbiased
    <2>1. range \in Word /\ range # 0 /\ t = Threshold
      BY <1>1 DEF IInv, TypeOK, DrawFits, Drawing
    <2> QED BY <2>1, EqualShares
  <1> QED BY <1>1, Invariance, PTL

\* The server finds an identifier that was made with a length of at most 32
\* exactly when the first "uid=" of the URI stands before it and nothing after
\* it (getSongUIDOutOfURI()), wherever in the URI it stands.
THEOREM FindsFirstAndLast == Spec => []FoundIfFirstAndLast
  <1>1. ASSUME IInv PROVE FoundIfFirstAndLast
    <2> SUFFICES ASSUME pc = "found", required <= DEFAULT_UUID_STRING_LEN
                 PROVE found = [from |-> uri.before, length |-> uri.uid]
                         <=> uri.tag + uriTag = uri.before /\ uri.tag # npos /\ uri.after = 0
      BY DEF FoundIfFirstAndLast
    <2>1. /\ uri.before \in Nat /\ uri.after \in Nat /\ uri.tag \in Nat \cup {npos}
          /\ uri.uid = 32
      BY <1>1 DEF IInv, TypeOK, LengthFits, DEFAULT_UUID_STRING_LEN
    <2>2. CASE uri.tag = npos
      <3>1. found.from = npos
        BY <1>1, <2>2 DEF IInv, LengthFits, NotAvailable
      <3> QED BY <2>1, <2>2, <3>1 DEF npos
    <2>3. CASE uri.tag # npos
      <3> DEFINE begPos == uri.tag + uriTag
      <3>1. uri.tag \in Nat /\ begPos \in Nat /\ begPos >= 4
        BY <2>1, <2>3 DEF uriTag
      <3>2. found = [from |-> begPos,
                     length |-> Shorter(begPos + 32, uri.before + uri.uid + uri.after - begPos)]
        BY <1>1, <2>3 DEF IInv, LengthFits, Substr
      <3> HIDE DEF begPos
      <3>3. found = [from |-> uri.before, length |-> uri.uid]
              <=> /\ begPos = uri.before
                  /\ Shorter(begPos + 32, uri.before + uri.uid + uri.after - begPos) = uri.uid
        BY <3>2
      <3>4. begPos = uri.before =>
              (Shorter(begPos + 32, uri.before + uri.uid + uri.after - begPos) = uri.uid
                 <=> uri.after = 0)
        BY <2>1, <3>1 DEF Shorter
      <3> QED BY <2>3, <3>3, <3>4 DEF begPos
    <2> QED BY <2>2, <2>3
  <1> QED BY <1>1, Invariance, PTL

=============================================================================
