--------------------------- MODULE ExtractionProofs ---------------------------
(***************************************************************************)
(* The loop of extract_fields for any templates, masks and bodies: what the    *)
(* loop has built after n fields is what the definitions Discloses and Hashes    *)
(* say of the first n, and these two leave no choice of a result.  None of this    *)
(* depends on how navigate_json_path follows a path.                              *)
(***************************************************************************)
EXTENDS FieldExtraction, FiniteSetTheorems, TLAPS

IsMap(map) == map = [key \in DOMAIN map |-> map[key]]

LoopInv ==
    /\ IsMap(disclosed)
    /\ call # None =>
          /\ Discloses(call, next - 1, disclosed)
          /\ Hashes(call, next - 1, redacted_hashes)
          /\ \A k \in 1..next - 1 : ~Missing(call, k)
    /\ stage \in {"loop", "extracted"} => Parsed[call.response_body] # None
    /\ stage = "failed" =>
          \/ Parsed[call.response_body] = None
          \/ \E k \in DOMAIN call.fields : Missing(call, k)

EInv == ExtractTypeOK /\ LoopInv

LEMMA CallShape ==
    ASSUME NEW c \in Call
    PROVE  /\ c.response_body \in Body
           /\ c.fields \in FieldList
           /\ c.disclosure \in Disclosure
           /\ Len(c.fields) \in Nat
           /\ DOMAIN c.fields = 1..Len(c.fields)
           /\ c # None
BY InputAssumption DEF Call

(* Nothing is there before the first field. *)
LEMMA NothingYet ==
    ASSUME NEW c
    PROVE  Discloses(c, 0, NoFields) /\ Hashes(c, 0, << >>)
<1>1. 1..0 = {}  OBVIOUS
<1>2. Discloses(c, 0, NoFields)
  BY <1>1 DEF Discloses, NoFields
<1>3. Hashes(c, 0, << >>)
  <2> DEFINE position == [j \in {} |-> 0]
  <2>1. position \in [1..Len(<< >>) -> 1..0]  BY <1>1
  <2>2. {position[j] : j \in 1..Len(<< >>)} = {}  BY <1>1
  <2> QED  BY <1>1, <2>1, <2>2 DEF Hashes
<1> QED  BY <1>2, <1>3

(* What HashMap::insert builds is a map. *)
LEMMA MapsStayMaps ==
    ASSUME NEW map, NEW key, NEW value
    PROVE  IsMap(NoFields) /\ IsMap(Insert(map, key, value))
BY DEF IsMap, NoFields, Insert

(* One more disclosed field: its value is inserted. *)
LEMMA DisclosesOneMore ==
    ASSUME NEW c, NEW n \in Nat \ {0}, NEW map, Discloses(c, n - 1, map),
           IsDisclosed(c, n)
    PROVE  Discloses(c, n, Insert(map, c.fields[n].name, Shown(c, n)))
<1> DEFINE name(k) == c.fields[k].name
           new == Insert(map, name(n), Shown(c, n))
<1>1. 1..n = 1..n - 1 \cup {n}  OBVIOUS
<1>2. DOMAIN new = DOMAIN map \cup {name(n)}  BY DEF Insert
<1>3. DOMAIN map = {name(k) : k \in {j \in 1..n - 1 : IsDisclosed(c, j)}}
  BY DEF Discloses
<1>4. DOMAIN new = {name(k) : k \in {j \in 1..n : IsDisclosed(c, j)}}
  BY <1>1, <1>2, <1>3
<1>5. ASSUME NEW k \in 1..n, IsDisclosed(c, k), ~Overridden(c, k, n)
      PROVE  new[name(k)] = Shown(c, k)
  <2>1. CASE k = n  BY <2>1, <1>2 DEF Insert
  <2>2. CASE k # n
    <3>1. k \in 1..n - 1 /\ n \in k + 1..n  BY <2>2
    <3>2. name(k) # name(n)  BY <3>1, <1>5 DEF Overridden
    <3>3. k + 1..n - 1 \subseteq k + 1..n  BY <3>1
    <3>4. ~Overridden(c, k, n - 1)  BY <3>3, <1>5 DEF Overridden
    <3>5. map[name(k)] = Shown(c, k)  BY <3>1, <3>4, <1>5 DEF Discloses
    <3>6. name(k) \in DOMAIN map  BY <3>1, <1>5, <1>3
    <3> QED  BY <3>2, <3>5, <3>6 DEF Insert
  <2> QED  BY <2>1, <2>2
<1> QED  BY <1>4, <1>5 DEF Discloses

(* A field that is not disclosed changes nothing. *)
LEMMA DisclosesNoMore ==
    ASSUME NEW c, NEW n \in Nat \ {0}, NEW map, Discloses(c, n - 1, map),
           ~IsDisclosed(c, n)
    PROVE  Discloses(c, n, map)
<1>1. 1..n = 1..n - 1 \cup {n}  OBVIOUS
<1>2. {j \in 1..n : IsDisclosed(c, j)} = {j \in 1..n - 1 : IsDisclosed(c, j)}
  BY <1>1
<1>3. ASSUME NEW k \in 1..n, IsDisclosed(c, k), ~Overridden(c, k, n)
      PROVE  map[c.fields[k].name] = Shown(c, k)
  <2>1. k \in 1..n - 1 /\ k + 1..n - 1 \subseteq k + 1..n  BY <1>1, <1>3
  <2> QED  BY <2>1, <1>3 DEF Discloses, Overridden
<1> QED  BY <1>2, <1>3 DEF Discloses

(* One more redacted field that the body has: its hash is appended. *)
LEMMA HashesOneMore ==
    ASSUME NEW c, NEW n \in Nat \ {0}, NEW S, NEW hashes \in Seq(S),
           Hashes(c, n - 1, hashes), IsRedacted(c, n), Found(c, n)
    PROVE  Hashes(c, n, Append(hashes, FieldHash(c, n)))
<1> DEFINE len == Len(hashes)
           new == Append(hashes, FieldHash(c, n))
           Wanted(m) == {k \in 1..m : IsRedacted(c, k) /\ Found(c, k)}
<1>1. PICK position \in [1..len -> 1..n - 1] :
         /\ \A i, j \in 1..len : i < j => position[i] < position[j]
         /\ {position[j] : j \in 1..len} = Wanted(n - 1)
         /\ \A j \in 1..len : hashes[j] = FieldHash(c, position[j])
  BY DEF Hashes
<1> DEFINE more == [j \in 1..len + 1 |-> IF j = len + 1 THEN n ELSE position[j]]
<1>2. /\ len \in Nat
      /\ Len(new) = len + 1
      /\ \A j \in 1..len : new[j] = hashes[j]
      /\ new[len + 1] = FieldHash(c, n)
  OBVIOUS
<1>3. 1..len + 1 = 1..len \cup {len + 1} /\ 1..n = 1..n - 1 \cup {n}  BY <1>2
<1>4. \A j \in 1..len : more[j] = position[j] /\ position[j] \in 1..n - 1
  BY <1>2
<1>5. more[len + 1] = n  BY <1>2
<1>6. more \in [1..Len(new) -> 1..n]  BY <1>2, <1>3, <1>4, <1>5
<1>7. ASSUME NEW i \in 1..Len(new), NEW j \in 1..Len(new), i < j
      PROVE  more[i] < more[j]
  <2>1. i \in 1..len  BY <1>2, <1>7
  <2>2. CASE j = len + 1  BY <2>1, <2>2, <1>4, <1>5
  <2>3. CASE j # len + 1
    <3>1. j \in 1..len  BY <2>3, <1>2
    <3> QED  BY <3>1, <2>1, <1>1, <1>4, <1>7
  <2> QED  BY <2>2, <2>3
<1>8. {more[j] : j \in 1..Len(new)} = Wanted(n)
  <2>1. {more[j] : j \in 1..Len(new)} = {position[j] : j \in 1..len} \cup {n}
    BY <1>2, <1>3, <1>4, <1>5
  <2>2. Wanted(n) = Wanted(n - 1) \cup {n}  BY <1>3
  <2> QED  BY <2>1, <2>2, <1>1
<1>9. \A j \in 1..Len(new) : new[j] = FieldHash(c, more[j])
  BY <1>1, <1>2, <1>3, <1>4, <1>5
<1> HIDE DEF more, new
<1> QED  BY <1>6, <1>7, <1>8, <1>9 DEF Hashes, new

(* A field that leaves no hash. *)
LEMMA HashesNoMore ==
    ASSUME NEW c, NEW n \in Nat \ {0}, NEW S, NEW hashes \in Seq(S),
           Hashes(c, n - 1, hashes), ~(IsRedacted(c, n) /\ Found(c, n))
    PROVE  Hashes(c, n, hashes)
<1> DEFINE len == Len(hashes)
           Wanted(m) == {k \in 1..m : IsRedacted(c, k) /\ Found(c, k)}
<1>1. PICK position \in [1..len -> 1..n - 1] :
         /\ \A i, j \in 1..len : i < j => position[i] < position[j]
         /\ {position[j] : j \in 1..len} = Wanted(n - 1)
         /\ \A j \in 1..len : hashes[j] = FieldHash(c, position[j])
  BY DEF Hashes
<1>2. 1..n = 1..n - 1 \cup {n}  OBVIOUS
<1>3. Wanted(n) = Wanted(n - 1)  BY <1>2
<1>4. position \in [1..len -> 1..n]  BY <1>2
<1> QED  BY <1>1, <1>3, <1>4 DEF Hashes

------------------------------------------------------------------------------
(* The loop *)

LEMMA ExtractInitEstablishes == ExtractInit => EInv
BY MapsStayMaps DEF ExtractInit, EInv, ExtractTypeOK, LoopInv

LEMMA ExtractPreserves ==
    ASSUME NEW b \in Body, NEW fs \in FieldList, NEW m \in Disclosure,
           EInv, Extract(b, fs, m)
    PROVE  EInv'
<1> DEFINE c == [response_body |-> b, fields |-> fs, disclosure |-> m]
<1>1. c \in Call  BY DEF Call
<1>2. c # None /\ Len(c.fields) \in Nat  BY <1>1, CallShape
<1>3. /\ stage' = "parse" /\ call' = c /\ next' = next
      /\ disclosed' = disclosed /\ redacted_hashes' = redacted_hashes
  BY DEF Extract
<1>4. next = 1 /\ disclosed = NoFields /\ redacted_hashes = << >>
  BY DEF Extract, EInv, ExtractTypeOK
<1>5. ExtractTypeOK'
  BY <1>1, <1>2, <1>3, <1>4 DEF ExtractTypeOK
<1>6. next' - 1 = 0 /\ 1..next' - 1 = {}  BY <1>3, <1>4
<1> HIDE DEF c
<1>7. LoopInv'
  BY <1>2, <1>3, <1>4, <1>6, NothingYet, MapsStayMaps DEF LoopInv
<1> QED  BY <1>5, <1>7 DEF EInv

LEMMA ParsePreserves ==
    ASSUME EInv, Parse
    PROVE  EInv'
<1>1. call # None /\ call \in Call  BY DEF EInv, ExtractTypeOK, Parse
<1>2. UNCHANGED <<call, next, disclosed, redacted_hashes>>  BY DEF Parse
<1>3. stage' = IF Parsed[call.response_body] = None THEN "failed" ELSE "loop"
  BY DEF Parse
<1>4. ExtractTypeOK'
  BY <1>1, <1>2, <1>3 DEF EInv, ExtractTypeOK, Parse
<1>5. LoopInv'
  BY <1>1, <1>2, <1>3 DEF EInv, LoopInv, IsMap, Discloses, Hashes
<1> QED  BY <1>4, <1>5 DEF EInv

(* What holds at the head of a round. *)
LEMMA Round ==
    ASSUME EInv, AtField
    PROVE  /\ call \in Call /\ call # None
           /\ next \in Nat \ {0} /\ next \in DOMAIN call.fields
           /\ redacted_hashes \in Seq({FieldHash(call, k) : k \in DOMAIN call.fields})
           /\ Discloses(call, next - 1, disclosed)
           /\ Hashes(call, next - 1, redacted_hashes)
           /\ 1..next = 1..next - 1 \cup {next}
           /\ stage = "loop"
           /\ IsMap(disclosed)
<1>1. call \in Call /\ call # None  BY DEF EInv, ExtractTypeOK, AtField
<1> QED  BY <1>1, CallShape DEF EInv, ExtractTypeOK, LoopInv, AtField

(* A round that ends well looks at one field. *)
LEMMA RoundPreserves ==
    ASSUME EInv, AtField, NextField, ~Missing(call, next), IsMap(disclosed'),
           Discloses(call, next, disclosed'),
           Hashes(call, next, redacted_hashes'),
           redacted_hashes' \in
              Seq({FieldHash(call, k) : k \in DOMAIN call.fields})
    PROVE  EInv'
<1>1. next' = next + 1 /\ next' - 1 = next /\ call' = call /\ stage' = stage
  BY Round DEF NextField
<1>2. next' <= Len(call.fields) + 1 /\ next' \in Nat \ {0}
  BY <1>1, Round, CallShape
<1>3. ExtractTypeOK'
  BY <1>1, <1>2, Round DEF EInv, ExtractTypeOK
<1>4. \A k \in 1..next : ~Missing(call, k)
  BY Round DEF EInv, LoopInv
<1>5. LoopInv'
  BY <1>1, <1>4, Round DEF EInv, LoopInv
<1> QED  BY <1>3, <1>5 DEF EInv

LEMMA ExtractStepPreserves ==
    ASSUME EInv, ExtractStep
    PROVE  EInv'
<1>1. CASE Parse  BY <1>1, ParsePreserves
<1>2. CASE DiscloseValue
  <2>1. AtField /\ IsDisclosed(call, next) /\ Found(call, next)
    BY <1>2 DEF DiscloseValue
  <2>2. NextField /\ redacted_hashes' = redacted_hashes
    BY <1>2 DEF DiscloseValue, Disclose
  <2>3. disclosed' = Insert(disclosed, call.fields[next].name, Shown(call, next))
    BY <1>2, <2>1 DEF DiscloseValue, Disclose, Shown
  <2>4. Discloses(call, next, disclosed')
    BY <2>1, <2>3, Round, DisclosesOneMore
  <2>5. Hashes(call, next, redacted_hashes')
    BY <2>1, <2>2, Round, HashesNoMore DEF IsRedacted
  <2>6. IsMap(disclosed')  BY <2>3, MapsStayMaps
  <2> QED
    BY <2>1, <2>2, <2>4, <2>5, <2>6, Round, RoundPreserves DEF Missing
<1>3. CASE MissingRequired
  <2>1. AtField /\ Missing(call, next) /\ stage' = "failed"
    BY <1>3 DEF MissingRequired, Missing
  <2>2. UNCHANGED <<call, next, disclosed, redacted_hashes>>
    BY <1>3 DEF MissingRequired
  <2>3. ExtractTypeOK'
    BY <2>1, <2>2, Round DEF EInv, ExtractTypeOK
  <2>4. LoopInv'
    BY <2>1, <2>2, Round DEF EInv, LoopInv
  <2> QED  BY <2>3, <2>4 DEF EInv
<1>4. CASE DiscloseNull
  <2>1. AtField /\ IsDisclosed(call, next) /\ ~Missing(call, next)
    BY <1>4 DEF DiscloseNull, Missing
  <2>2. NextField /\ redacted_hashes' = redacted_hashes
    BY <1>4 DEF DiscloseNull, Disclose
  <2>3. disclosed' = Insert(disclosed, call.fields[next].name, Shown(call, next))
    BY <1>4 DEF DiscloseNull, Disclose, Shown
  <2>4. Discloses(call, next, disclosed')
    BY <2>1, <2>3, Round, DisclosesOneMore
  <2>5. Hashes(call, next, redacted_hashes')
    BY <2>1, <2>2, Round, HashesNoMore DEF IsRedacted
  <2>6. IsMap(disclosed')  BY <2>3, MapsStayMaps
  <2> QED  BY <2>1, <2>2, <2>4, <2>5, <2>6, Round, RoundPreserves
<1>5. CASE HashValue
  <2>1. AtField /\ IsRedacted(call, next) /\ Found(call, next)
    BY <1>5 DEF HashValue
  <2>2. /\ NextField /\ disclosed' = disclosed
        /\ redacted_hashes' = Append(redacted_hashes, FieldHash(call, next))
    BY <1>5 DEF HashValue
  <2>3. ~IsDisclosed(call, next)  BY <2>1 DEF IsRedacted
  <2>4. Discloses(call, next, disclosed')
    BY <2>1, <2>2, <2>3, Round, DisclosesNoMore
  <2>5. Hashes(call, next, redacted_hashes')
    BY <2>1, <2>2, Round, HashesOneMore
  <2>6. redacted_hashes' \in
           Seq({FieldHash(call, k) : k \in DOMAIN call.fields})
    <3> DEFINE S == {FieldHash(call, k) : k \in DOMAIN call.fields}
    <3>1. FieldHash(call, next) \in S /\ redacted_hashes \in Seq(S)
      BY <2>1, Round
    <3> HIDE DEF S
    <3>2. Append(redacted_hashes, FieldHash(call, next)) \in Seq(S)  BY <3>1
    <3> QED  BY <3>2, <2>2 DEF S
  <2>7. ~Missing(call, next)  BY <2>1 DEF Missing
  <2>8. IsMap(disclosed')  BY <2>1, <2>2, Round
  <2> QED  BY <2>1, <2>2, <2>4, <2>5, <2>6, <2>7, <2>8, RoundPreserves
<1>6. CASE SkipField
  <2>1. /\ AtField /\ ~IsDisclosed(call, next)
        /\ ~(IsRedacted(call, next) /\ Found(call, next))
    BY <1>6 DEF SkipField
  <2>2. NextField /\ UNCHANGED <<disclosed, redacted_hashes>>
    BY <1>6 DEF SkipField
  <2>3. Discloses(call, next, disclosed')
    BY <2>1, <2>2, Round, DisclosesNoMore
  <2>4. Hashes(call, next, redacted_hashes')
    BY <2>1, <2>2, Round, HashesNoMore
  <2>5. IsMap(disclosed')  BY <2>1, <2>2, Round
  <2> QED
    BY <2>1, <2>2, <2>3, <2>4, <2>5, Round, RoundPreserves DEF Missing
<1>7. CASE Return
  <2>1. /\ stage = "loop" /\ stage' = "extracted" /\ next > Len(call.fields)
        /\ UNCHANGED <<call, next, disclosed, redacted_hashes>>
    BY <1>7 DEF Return
  <2>2. call \in Call /\ call # None  BY <2>1 DEF EInv, ExtractTypeOK
  <2>3. next = Len(call.fields) + 1
    BY <2>1, <2>2, CallShape DEF EInv, ExtractTypeOK
  <2>4. ExtractTypeOK'  BY <2>1, <2>2, <2>3 DEF EInv, ExtractTypeOK
  <2>5. LoopInv'  BY <2>1, <2>2 DEF EInv, LoopInv
  <2> QED  BY <2>4, <2>5 DEF EInv
<1> QED
  BY <1>1, <1>2, <1>3, <1>4, <1>5, <1>6, <1>7 DEF ExtractStep

LEMMA ExtractNextPreserves ==
    ASSUME EInv, [ExtractNext]_evars
    PROVE  EInv'
<1>1. ASSUME NEW b \in Body, NEW fs \in FieldList, NEW m \in Disclosure,
             Extract(b, fs, m)
      PROVE  EInv'
  BY <1>1, ExtractPreserves
<1>2. CASE ExtractStep  BY <1>2, ExtractStepPreserves
<1>3. CASE Discard
  BY <1>3, MapsStayMaps DEF Discard, EInv, ExtractTypeOK, LoopInv
<1>4. CASE UNCHANGED evars
  BY <1>4 DEF evars, EInv, ExtractTypeOK, LoopInv
<1> QED  BY <1>1, <1>2, <1>3, <1>4 DEF ExtractNext

------------------------------------------------------------------------------
(* Least and greatest numbers *)

(* The library proves that finite sets are well-founded under strict inclusion;   *)
(* here it is used of the intervals 1..k, which stand for the numbers k.           *)
LEMMA LeastNumber ==
    ASSUME NEW T, T \subseteq Nat, T # {}
    PROVE  \E m \in T : \A j \in T : m <= j
<1> DEFINE W == {1..k : k \in T}
<1>1. \A k \in T : 1..k \in FiniteSubsetsOf(Nat)
  <2> TAKE k \in T
  <2>1. IsFiniteSet(1..k)  BY FS_Interval
  <2> QED  BY <2>1 DEF FiniteSubsetsOf
<1>2. W \subseteq FiniteSubsetsOf(Nat)  BY <1>1
<1>3. W # {}  OBVIOUS
<1> HIDE DEF W
<1>4. PICK x \in W : \A y \in W : ~(<<y, x>> \in StrictSubsetOrdering(Nat))
  BY <1>2, <1>3, FS_StrictSubsetOrderingWellFounded, WFMin
<1>5. PICK m \in T : x = 1..m  BY DEF W
<1>6. ASSUME NEW j \in T PROVE m <= j
  <2> SUFFICES ASSUME j < m PROVE FALSE
    BY <1>5
  <2>1. 1..j \in W  BY DEF W
  <2>2. 1..j \subseteq 1..m /\ m \in 1..m /\ m \notin 1..j
    OBVIOUS
  <2>3. 1..j \in FiniteSubsetsOf(Nat) /\ 1..m \in FiniteSubsetsOf(Nat)  BY <1>1
  <2>4. <<1..j, 1..m>> \in StrictSubsetOrdering(Nat)
    BY <2>2, <2>3 DEF StrictSubsetOrdering, FiniteSubsetsOf
  <2> QED  BY <1>4, <1>5, <2>1, <2>4
<1> QED  BY <1>6

LEMMA GreatestIndex ==
    ASSUME NEW n \in Nat, NEW T, T \subseteq 1..n, T # {}
    PROVE  \E m \in T : \A j \in T : j <= m
<1> DEFINE Rest == {n - k : k \in T}
<1>1. Rest \subseteq Nat /\ Rest # {}
  <2>1. \A k \in T : k \in Nat /\ k <= n  OBVIOUS
  <2>2. \A k \in T : n - k \in Nat  BY <2>1
  <2> QED  BY <2>2
<1>2. PICK r \in Rest : \A s \in Rest : r <= s
  <2> HIDE DEF Rest
  <2> QED  BY <1>1, LeastNumber
<1>3. PICK m \in T : r = n - m  OBVIOUS
<1>4. ASSUME NEW j \in T PROVE j <= m
  <2>1. n - j \in Rest  OBVIOUS
  <2>2. n - m <= n - j  BY <1>2, <1>3, <2>1
  <2> QED  BY <2>2
<1> QED  BY <1>4

------------------------------------------------------------------------------
(* Discloses and Hashes have one solution each *)

(* Every name in the map has a last disclosed field. *)
LEMMA LastDisclosed ==
    ASSUME NEW c, NEW n \in Nat, NEW map, Discloses(c, n, map),
           NEW x \in DOMAIN map
    PROVE  \E m \in 1..n : /\ IsDisclosed(c, m) /\ ~Overridden(c, m, n)
                           /\ c.fields[m].name = x
<1> DEFINE T == {k \in 1..n : IsDisclosed(c, k) /\ c.fields[k].name = x}
<1>1. T \subseteq 1..n /\ T # {}  BY DEF Discloses
<1>2. PICK m \in T : \A j \in T : j <= m
  <2> HIDE DEF T
  <2> QED  BY <1>1, GreatestIndex
<1>3. m \in 1..n /\ IsDisclosed(c, m) /\ c.fields[m].name = x  OBVIOUS
<1>4. ~Overridden(c, m, n)
  <2> SUFFICES ASSUME NEW j \in m + 1..n, IsDisclosed(c, j),
                      c.fields[j].name = c.fields[m].name
               PROVE  FALSE
    BY DEF Overridden
  <2>1. j \in T /\ ~(j <= m)  BY <1>3
  <2> QED  BY <2>1, <1>2
<1> QED  BY <1>3, <1>4

(* The properties fix the map: that field gives the value. *)
LEMMA OneMapDiscloses ==
    ASSUME NEW c, NEW n \in Nat, NEW one, NEW other, IsMap(one), IsMap(other),
           Discloses(c, n, one), Discloses(c, n, other)
    PROVE  one = other
<1>1. DOMAIN other = DOMAIN one  BY DEF Discloses
<1>2. ASSUME NEW x \in DOMAIN one PROVE one[x] = other[x]
  <2>1. PICK m \in 1..n : /\ IsDisclosed(c, m) /\ ~Overridden(c, m, n)
                          /\ c.fields[m].name = x
    BY LastDisclosed
  <2> QED  BY <2>1 DEF Discloses
<1> QED  BY <1>1, <1>2 DEF IsMap

(* position lists l numbers of 1..n in increasing order. *)
Increasing(position, l, n) ==
    /\ position \in [1..l -> 1..n]
    /\ \A i, j \in 1..l : i < j => position[i] < position[j]

Listed(position, l) == {position[j] : j \in 1..l}

LEMMA PositionsAreNumbers ==
    ASSUME NEW p, NEW l, NEW n \in Nat, Increasing(p, l, n)
    PROVE  \A j \in 1..l : p[j] \in Nat
BY DEF Increasing

(* Two increasing enumerations of one set agree as far as the first goes. *)
LEMMA EnumerationsAgree ==
    ASSUME NEW n \in Nat, NEW l1 \in Nat, NEW l2 \in Nat, NEW p, NEW q,
           Increasing(p, l1, n), Increasing(q, l2, n),
           Listed(p, l1) = Listed(q, l2)
    PROVE  l1 <= l2 /\ \A j \in 1..l1 : p[j] = q[j]
<1> DEFINE T == {j \in 1..l1 : ~(j <= l2 /\ p[j] = q[j])}
<1>1. ASSUME T # {} PROVE FALSE
  <2>1. T \subseteq Nat  OBVIOUS
  <2>2. PICK m \in T : \A j \in T : m <= j
    <3> HIDE DEF T
    <3> QED  BY <1>1, <2>1, LeastNumber
  <2>3. m \in 1..l1 /\ ~(m <= l2 /\ p[m] = q[m])  OBVIOUS
  <2>4. ASSUME NEW j \in 1..l1, j < m PROVE j <= l2 /\ p[j] = q[j]
    <3>1. j \notin T  BY <2>2, <2>3, <2>4
    <3> QED  BY <3>1
  <2> HIDE DEF T
  <2>5. PICK k \in 1..l2 : p[m] = q[k]
    <3>1. p[m] \in Listed(q, l2)  BY <2>3 DEF Listed
    <3> QED  BY <3>1 DEF Listed
  <2>6. p[m] \in Nat  BY <2>3, PositionsAreNumbers
  <2>7. ~(k < m)
    <3> SUFFICES ASSUME k < m PROVE FALSE  OBVIOUS
    <3>1. k \in 1..l1  BY <2>3
    <3>2. p[k] = q[k]  BY <2>4, <3>1
    <3>3. p[k] < p[m]  BY <2>3, <3>1 DEF Increasing
    <3> QED  BY <2>5, <2>6, <3>2, <3>3
  <2>8. k # m  BY <2>3, <2>5
  <2>9. m < k /\ m \in 1..l2  BY <2>3, <2>7, <2>8
  <2>10. q[m] < p[m] /\ q[m] \in Nat
    BY <2>5, <2>9, PositionsAreNumbers DEF Increasing
  <2>11. PICK s \in 1..l1 : q[m] = p[s]
    <3>1. q[m] \in Listed(p, l1)  BY <2>9 DEF Listed
    <3> QED  BY <3>1 DEF Listed
  <2>12. s < m
    <3> SUFFICES ASSUME m < s PROVE FALSE  BY <2>3, <2>6, <2>10, <2>11
    <3>1. p[m] < p[s]  BY <2>3 DEF Increasing
    <3> QED  BY <2>6, <2>10, <2>11, <3>1
  <2>13. s \in 1..l2 /\ p[s] = q[s]  BY <2>4, <2>12, <2>9
  <2>14. q[s] < q[m]  BY <2>9, <2>12, <2>13 DEF Increasing
  <2> QED  BY <2>10, <2>11, <2>13, <2>14
<1>2. \A j \in 1..l1 : j <= l2 /\ p[j] = q[j]  BY <1>1
<1> QED  BY <1>2

(* The properties fix the list of hashes. *)
LEMMA OneListHashes ==
    ASSUME NEW c, NEW n \in Nat, NEW S, NEW one \in Seq(S), NEW other \in Seq(S),
           Hashes(c, n, one), Hashes(c, n, other)
    PROVE  one = other
<1> DEFINE Wanted == {k \in 1..n : IsRedacted(c, k) /\ Found(c, k)}
<1>1. PICK p \in [1..Len(one) -> 1..n] :
         /\ \A i, j \in 1..Len(one) : i < j => p[i] < p[j]
         /\ {p[j] : j \in 1..Len(one)} = Wanted
         /\ \A j \in 1..Len(one) : one[j] = FieldHash(c, p[j])
  BY DEF Hashes
<1>2. PICK q \in [1..Len(other) -> 1..n] :
         /\ \A i, j \in 1..Len(other) : i < j => q[i] < q[j]
         /\ {q[j] : j \in 1..Len(other)} = Wanted
         /\ \A j \in 1..Len(other) : other[j] = FieldHash(c, q[j])
  BY DEF Hashes
<1> HIDE DEF Wanted
<1>3. Len(one) \in Nat /\ Len(other) \in Nat  OBVIOUS
<1>4. Increasing(p, Len(one), n) /\ Increasing(q, Len(other), n)
  BY <1>1, <1>2 DEF Increasing
<1>5. Listed(p, Len(one)) = Listed(q, Len(other))  BY <1>1, <1>2 DEF Listed
<1>6. Len(one) <= Len(other) /\ \A j \in 1..Len(one) : p[j] = q[j]
  BY <1>3, <1>4, <1>5, EnumerationsAgree
<1>7. Len(other) <= Len(one)
  BY <1>3, <1>4, <1>5, EnumerationsAgree
<1>8. Len(one) = Len(other)  BY <1>3, <1>6, <1>7
<1>9. \A j \in 1..Len(one) : one[j] = other[j]
  BY <1>1, <1>2, <1>6, <1>8
<1> QED  BY <1>8, <1>9

------------------------------------------------------------------------------
(* Results *)

THEOREM LoopInvariantHolds == ExtractSpec => []EInv
<1>1. EInv /\ [ExtractNext]_evars => EInv'  BY ExtractNextPreserves
<1> QED  BY <1>1, ExtractInitEstablishes, PTL DEF ExtractSpec

LEMMA LoopInvSuffices ==
    EInv => DisclosesAsMasked /\ HashesAsMasked /\ FailsForCause
<1> SUFFICES ASSUME EInv
             PROVE  DisclosesAsMasked /\ HashesAsMasked /\ FailsForCause
  OBVIOUS
<1>1. DisclosesAsMasked /\ HashesAsMasked
  BY DEF EInv, LoopInv, DisclosesAsMasked, HashesAsMasked
<1>2. ASSUME stage = "extracted"
      PROVE  /\ Parsed[call.response_body] # None
             /\ \A k \in DOMAIN call.fields : ~Missing(call, k)
  <2>1. call \in Call /\ call # None  BY <1>2 DEF EInv, ExtractTypeOK
  <2>2. next - 1 = Len(call.fields)
    BY <1>2, <2>1, CallShape DEF EInv, ExtractTypeOK
  <2> QED  BY <1>2, <2>1, <2>2, CallShape DEF EInv, LoopInv
<1>3. FailsForCause  BY <1>2 DEF EInv, LoopInv, FailsForCause
<1> QED  BY <1>1, <1>3

(* For any template, mask and body the map of disclosed fields is what the mask  *)
(* discloses of the fields looked at so far.                                      *)
THEOREM DisclosureIsExact == ExtractSpec => []DisclosesAsMasked
BY LoopInvariantHolds, LoopInvSuffices, PTL

(* And the hashes are those of the fields the mask redacts, in order. *)
THEOREM RedactionIsExact == ExtractSpec => []HashesAsMasked
BY LoopInvariantHolds, LoopInvSuffices, PTL

(* An error is returned exactly when there is a cause for one. *)
THEOREM ErrorsHaveCauses == ExtractSpec => []FailsForCause
BY LoopInvariantHolds, LoopInvSuffices, PTL

(* The two say all there is to say: no other map and no other list of hashes than  *)
(* those that extract_fields returns discloses and hashes what the mask asks for    *)
(* (session.rs, the returned pair).                                                *)
THEOREM ExtractionIsDetermined ==
    ExtractSpec =>
       [](stage = "extracted" =>
             LET n == Len(call.fields)
             IN  /\ \A map : IsMap(map) /\ Discloses(call, n, map)
                             => map = disclosed
                 /\ \A hashes \in Seq({FieldHash(call, k) : k \in 1..n}) :
                       Hashes(call, n, hashes) => hashes = redacted_hashes)
<1>1. ASSUME EInv, stage = "extracted"
      PROVE  LET n == Len(call.fields)
             IN  /\ \A map : IsMap(map) /\ Discloses(call, n, map)
                             => map = disclosed
                 /\ \A hashes \in Seq({FieldHash(call, k) : k \in 1..n}) :
                       Hashes(call, n, hashes) => hashes = redacted_hashes
  <2> DEFINE n == Len(call.fields)
             Of == {FieldHash(call, k) : k \in 1..n}
  <2>1. /\ call \in Call /\ n \in Nat /\ next - 1 = n
        /\ redacted_hashes \in Seq(Of)
    BY <1>1, CallShape DEF EInv, ExtractTypeOK
  <2>2. /\ IsMap(disclosed)
        /\ Discloses(call, n, disclosed) /\ Hashes(call, n, redacted_hashes)
    BY <1>1, <2>1 DEF EInv, ExtractTypeOK, LoopInv
  <2> HIDE DEF n, Of
  <2>3. ASSUME NEW map, IsMap(map), Discloses(call, n, map) PROVE map = disclosed
    BY <2>1, <2>2, <2>3, OneMapDiscloses
  <2>4. ASSUME NEW hashes \in Seq(Of), Hashes(call, n, hashes)
        PROVE  hashes = redacted_hashes
    BY <2>1, <2>2, <2>4, OneListHashes
  <2> QED  BY <2>3, <2>4 DEF n, Of
<1> QED  BY <1>1, LoopInvariantHolds, PTL

(* Every path the mask redacts is a field's. *)
MaskFits ==
    \A p \in call.disclosure.redacted_paths :
       \E k \in DOMAIN call.fields : call.fields[k].json_path = p

(* What DisclosureMask says of redacted_paths is true of a mask that redacts only  *)
(* fields: a path that is no field's is all that can be lost without a hash.        *)
THEOREM FittingMasksLeaveHashes == ExtractSpec => [](MaskFits => RedactedLeaveHash)
<1>1. ASSUME EInv, MaskFits PROVE RedactedLeaveHash
  <2> SUFFICES
        ASSUME stage = "extracted",
               NEW p \in call.disclosure.redacted_paths
                            \ call.disclosure.disclosed_paths,
               Navigate(Parsed[call.response_body], p) # None
        PROVE  \E j \in DOMAIN redacted_hashes :
                  redacted_hashes[j] =
                     Sha512(<<p, Navigate(Parsed[call.response_body], p)>>)
    BY DEF RedactedLeaveHash
  <2> DEFINE n == Len(call.fields)
  <2>1. call \in Call /\ call # None /\ next - 1 = n
    BY <1>1, CallShape DEF EInv, ExtractTypeOK
  <2>2. PICK k \in 1..n : call.fields[k].json_path = p
    BY <1>1, <2>1, CallShape DEF MaskFits
  <2>3. IsRedacted(call, k) /\ Found(call, k)
    BY <2>2 DEF IsRedacted, IsDisclosed, Found, Value
  <2>4. PICK position \in [1..Len(redacted_hashes) -> 1..n] :
           /\ {position[j] : j \in 1..Len(redacted_hashes)} =
                 {m \in 1..n : IsRedacted(call, m) /\ Found(call, m)}
           /\ \A j \in 1..Len(redacted_hashes) :
                 redacted_hashes[j] = FieldHash(call, position[j])
    BY <1>1, <2>1 DEF EInv, LoopInv, Hashes
  <2>5. PICK j \in 1..Len(redacted_hashes) : position[j] = k
    <3>1. k \in {position[j] : j \in 1..Len(redacted_hashes)}  BY <2>3, <2>4
    <3> QED  BY <3>1
  <2>6. redacted_hashes[j] = Sha512(<<p, Navigate(Parsed[call.response_body], p)>>)
    BY <2>2, <2>4, <2>5 DEF FieldHash, Value
  <2>7. j \in DOMAIN redacted_hashes
    BY <1>1, <2>1 DEF EInv, ExtractTypeOK
  <2> QED  BY <2>6, <2>7
<1> QED  BY <1>1, LoopInvariantHolds, PTL

==============================================================================
