---------------------------- MODULE IpPool_proofs ---------------------------
(***************************************************************************)
(* The address pool, for bytes of any size: byte-wise increment is addition *)
(* of one, and the loop fills the pool with an interval.                    *)
(***************************************************************************)
EXTENDS IpPool, TLAPS

(* The two facts about multiplication that everything here comes down to:   *)
(* a number is its quotient by Base and the digit that is left, uniquely.   *)
LEMMA OneMoreTimesBase ==
  ASSUME NEW x \in Nat
  PROVE  x * Base \in Nat /\ (x + 1) * Base = x * Base + Base
BY BaseAssumption

LEMMA DigitsAreUnique ==
  ASSUME NEW x \in Nat, NEW y \in Nat, NEW a \in Digit, NEW b \in Digit,
         x * Base + a = y * Base + b
  PROVE  x = y /\ a = b
<1>1. ASSUME NEW u \in Nat, NEW v \in Nat, u < v
      PROVE  u * Base + Base <= v * Base
  <2>1. PICK w \in Nat : v = u + 1 + w
    <3>1. v - u - 1 \in Nat /\ v = u + 1 + (v - u - 1)
      BY <1>1
    <3> QED BY <3>1
  <2>2. v * Base = u * Base + Base + w * Base /\ w * Base >= 0 /\ u * Base \in Nat
    BY <2>1, BaseAssumption
  <2> QED BY <2>2, BaseAssumption
<1>2. a \in Nat /\ b \in Nat /\ a < Base /\ b < Base /\ x * Base \in Nat /\ y * Base \in Nat
  BY BaseAssumption DEF Digit
<1>3. ~(x < y)
  BY <1>1, <1>2, BaseAssumption
<1>4. ~(y < x)
  BY <1>1, <1>2, BaseAssumption
<1>5. x = y
  BY <1>3, <1>4
<1> QED BY <1>2, <1>5

(* The value of an address, one byte after the other.                       *)
High(a) == (a[1] * Base + a[2]) * Base + a[3]

LEMMA ValueType ==
  ASSUME NEW a \in IP
  PROVE  /\ a[1] \in Digit /\ a[2] \in Digit /\ a[3] \in Digit /\ a[4] \in Digit
         /\ a[1] \in Nat /\ a[1] * Base + a[2] \in Nat /\ High(a) \in Nat
         /\ Value(a) \in Nat /\ Value(a) = High(a) * Base + a[4]
<1>1. a[1] \in Digit /\ a[2] \in Digit /\ a[3] \in Digit /\ a[4] \in Digit
  BY DEF IP
<1>2. \A d \in Digit : d \in Nat
  BY BaseAssumption DEF Digit
<1>3. a[1] * Base + a[2] \in Nat
  BY <1>1, <1>2, OneMoreTimesBase
<1>4. High(a) \in Nat
  BY <1>1, <1>2, <1>3, OneMoreTimesBase DEF High
<1>5. Value(a) \in Nat
  BY <1>1, <1>2, <1>4, OneMoreTimesBase DEF High, Value
<1> QED BY <1>1, <1>2, <1>3, <1>4, <1>5 DEF High, Value

(* Two addresses that stand for the same number are the same.               *)
LEMMA ValueIsInjective ==
  ASSUME NEW a \in IP, NEW b \in IP, Value(a) = Value(b)
  PROVE  a = b
<1>1. High(a) = High(b) /\ a[4] = b[4]
  BY ValueType, DigitsAreUnique
<1>2. a[1] * Base + a[2] = b[1] * Base + b[2] /\ a[3] = b[3]
  BY <1>1, ValueType, DigitsAreUnique DEF High
<1>3. a[1] = b[1] /\ a[2] = b[2]
  BY <1>2, ValueType, DigitsAreUnique
<1>4. \A i \in 1 .. 4 : a[i] = b[i]
  <2>1. \A i \in 1 .. 4 : i = 1 \/ i = 2 \/ i = 3 \/ i = 4
    OBVIOUS
  <2> QED BY <1>1, <1>2, <1>3, <2>1
<1> QED BY <1>4 DEF IP

(* Every address stands for a number below Size.                            *)
LEMMA ValueIsBounded ==
  ASSUME NEW a \in IP
  PROVE  Value(a) < Size /\ (Value(a) = Size - 1 <=> \A i \in 1 .. 4 : a[i] = Base - 1)
<1> DEFINE top == [i \in 1 .. 4 |-> Base - 1]
<1>1. top \in IP
  BY BaseAssumption DEF IP, Digit
<1>2. Value(top) = Size - 1 /\ Size \in Nat
  <2>1. Value(top) = (((Base - 1) * Base + (Base - 1)) * Base + (Base - 1)) * Base + (Base - 1)
    BY DEF Value
  <2> QED BY <2>1, BaseAssumption DEF Size
<1>3. ASSUME NEW x \in Nat, NEW y \in Nat, NEW d \in Digit, x <= y
      PROVE  x * Base + d <= y * Base + (Base - 1)
  <2>1. PICK w \in Nat : y = x + w
    <3>1. y - x \in Nat /\ y = x + (y - x)
      BY <1>3
    <3> QED BY <3>1
  <2>2. y * Base = x * Base + w * Base /\ w * Base >= 0 /\ x * Base \in Nat
    BY <2>1, BaseAssumption
  <2> QED BY <2>2, BaseAssumption DEF Digit
<1>4. a[1] <= top[1]
  BY ValueType, BaseAssumption DEF Digit
<1>5. a[1] * Base + a[2] <= top[1] * Base + top[2]
  BY <1>1, <1>3, <1>4, ValueType
<1>6. High(a) <= High(top)
  BY <1>1, <1>3, <1>5, ValueType DEF High
<1>7. Value(a) <= Value(top)
  BY <1>1, <1>3, <1>6, ValueType
<1>8. Value(a) < Size
  BY <1>2, <1>7, ValueType
<1>9. Value(a) = Size - 1 => a = top
  BY <1>1, <1>2, ValueIsInjective
<1>10. (\A i \in 1 .. 4 : a[i] = Base - 1) => a = top
  BY DEF IP
<1> QED BY <1>2, <1>8, <1>9, <1>10

(* Byte-wise increment adds one, and takes the largest address to 0.        *)
THEOREM NextIPAddsOne ==
  ASSUME NEW a \in IP
  PROVE  /\ NextIP(a) \in IP
         /\ Value(NextIP(a)) = IF Value(a) = Size - 1 THEN 0 ELSE Value(a) + 1
<1> DEFINE n == NextIP(a)
<1> HIDE DEF n
<1>1. n \in IP
  <2>1. \A d \in Digit : (d + 1) % Base \in Digit
    BY BaseAssumption DEF Digit
  <2> QED BY <2>1 DEF n, NextIP, IP
<1>2. \A d \in Digit : d # Base - 1 => (d + 1) % Base = d + 1
  BY BaseAssumption DEF Digit
<1>3. (Base - 1 + 1) % Base = 0
  BY BaseAssumption
<1>4. /\ n[4] = (a[4] + 1) % Base
      /\ n[3] = IF a[4] = Base - 1 THEN (a[3] + 1) % Base ELSE a[3]
      /\ n[2] = IF a[3] = Base - 1 /\ a[4] = Base - 1 THEN (a[2] + 1) % Base ELSE a[2]
      /\ n[1] = IF a[2] = Base - 1 /\ a[3] = Base - 1 /\ a[4] = Base - 1
               THEN (a[1] + 1) % Base ELSE a[1]
  BY DEF n, NextIP
<1>5. Value(a) = High(a) * Base + a[4] /\ Value(n) = High(n) * Base + n[4]
  BY <1>1, ValueType
<1>6. CASE a[4] # Base - 1
  <2>1. n[4] = a[4] + 1 /\ n[3] = a[3] /\ n[2] = a[2] /\ n[1] = a[1]
    BY <1>2, <1>4, <1>6, ValueType
  <2>2. Value(n) = Value(a) + 1
    BY <1>5, <2>1, ValueType, OneMoreTimesBase, BaseAssumption DEF High, Digit
  <2> QED BY <1>1, <1>6, <2>2, ValueIsBounded DEF n
<1>7. CASE a[4] = Base - 1 /\ a[3] # Base - 1
  <2>1. n[4] = 0 /\ n[3] = a[3] + 1 /\ n[2] = a[2] /\ n[1] = a[1]
    BY <1>2, <1>3, <1>4, <1>7, ValueType
  <2>2. High(n) = High(a) + 1
    BY <2>1, ValueType, OneMoreTimesBase, BaseAssumption DEF High, Digit
  <2>3. Value(n) = Value(a) + 1
    BY <1>5, <1>7, <2>1, <2>2, ValueType, OneMoreTimesBase, BaseAssumption
  <2> QED BY <1>1, <1>7, <2>3, ValueIsBounded DEF n
<1>8. CASE a[4] = Base - 1 /\ a[3] = Base - 1 /\ a[2] # Base - 1
  <2>1. n[4] = 0 /\ n[3] = 0 /\ n[2] = a[2] + 1 /\ n[1] = a[1]
    BY <1>2, <1>3, <1>4, <1>8, ValueType
  <2>2. n[1] * Base + n[2] = a[1] * Base + a[2] + 1
    BY <2>1, ValueType, OneMoreTimesBase, BaseAssumption DEF Digit
  <2>3. High(n) = High(a) + 1
    BY <1>8, <2>1, <2>2, ValueType, OneMoreTimesBase, BaseAssumption DEF High
  <2>4. Value(n) = Value(a) + 1
    BY <1>5, <1>8, <2>1, <2>3, ValueType, OneMoreTimesBase, BaseAssumption
  <2> QED BY <1>1, <1>8, <2>4, ValueIsBounded DEF n
<1>9. CASE a[4] = Base - 1 /\ a[3] = Base - 1 /\ a[2] = Base - 1 /\ a[1] # Base - 1
  <2>1. n[4] = 0 /\ n[3] = 0 /\ n[2] = 0 /\ n[1] = a[1] + 1
    BY <1>2, <1>3, <1>4, <1>9, ValueType
  <2>2. n[1] * Base + n[2] = a[1] * Base + a[2] + 1
    BY <1>9, <2>1, ValueType, OneMoreTimesBase, BaseAssumption
  <2>3. High(n) = High(a) + 1
    BY <1>9, <2>1, <2>2, ValueType, OneMoreTimesBase, BaseAssumption DEF High
  <2>4. Value(n) = Value(a) + 1
    BY <1>5, <1>9, <2>1, <2>3, ValueType, OneMoreTimesBase, BaseAssumption
  <2> QED BY <1>1, <1>9, <2>4, ValueIsBounded DEF n
<1>10. CASE a[4] = Base - 1 /\ a[3] = Base - 1 /\ a[2] = Base - 1 /\ a[1] = Base - 1
  <2>1. n[4] = 0 /\ n[3] = 0 /\ n[2] = 0 /\ n[1] = 0
    BY <1>3, <1>4, <1>10
  <2>2. Value(n) = 0
    BY <2>1, BaseAssumption DEF Value
  <2>3. \A i \in 1 .. 4 : a[i] = Base - 1
    BY <1>10
  <2> QED BY <1>1, <2>2, <2>3, ValueIsBounded DEF n
<1> QED BY <1>6, <1>7, <1>8, <1>9, <1>10

(* One step further away from the first address, unless the step is back    *)
(* to it; and an address before the last one is not yet at its distance.    *)
LEMMA StepsOfDistance ==
  ASSUME NEW s \in IP, NEW a \in IP, NEW e \in IP, a # e,
         Distance(s, a) <= Distance(s, e)
  PROVE  /\ Distance(s, NextIP(a)) = Distance(s, a) + 1
         /\ Distance(s, a) < Distance(s, e)
<1>1. /\ Value(s) \in Nat /\ Value(s) < Size
      /\ Value(a) \in Nat /\ Value(a) < Size
      /\ Value(e) \in Nat /\ Value(e) < Size
      /\ Size \in Nat
  BY ValueType, ValueIsBounded, BaseAssumption DEF Size
<1>2. Value(a) # Value(e)
  BY ValueIsInjective
<1>3. Distance(s, a) < Distance(s, e)
  BY <1>1, <1>2 DEF Distance
<1>4. Value(NextIP(a)) = IF Value(a) = Size - 1 THEN 0 ELSE Value(a) + 1
  BY NextIPAddsOne
<1>5. Distance(s, NextIP(a)) = Distance(s, a) + 1
  BY <1>1, <1>3, <1>4 DEF Distance
<1> QED BY <1>3, <1>5

PoolInv == PoolTypeOK /\ PoolIsTheInterval

LEMMA PoolInvHolds == PoolSpec => []PoolInv
<1>1. PoolInit => PoolInv
  <2> SUFFICES ASSUME PoolInit PROVE PoolInv
    OBVIOUS
  <2>1. Value(start) \in Nat /\ Value(end) \in Nat /\ Value(start) < Size /\ Size \in Nat
    BY ValueType, ValueIsBounded, BaseAssumption DEF PoolInit, Size
  <2>2. Distance(start, ip) = 0 /\ 0 <= Distance(start, end)
    BY <2>1 DEF PoolInit, Distance
  <2>3. Len(ipPool) = 0 /\ ipPool \in Seq(IP)
    BY DEF PoolInit
  <2> QED BY <2>2, <2>3 DEF PoolInit, PoolInv, PoolTypeOK, PoolIsTheInterval
<1>2. PoolInv /\ [Add]_poolVars => PoolInv'
  <2> SUFFICES ASSUME PoolInv, [Add]_poolVars PROVE PoolInv'
    OBVIOUS
  <2>1. CASE Add
    <3>1. start \in IP /\ end \in IP /\ ip \in IP /\ ip # end /\ ipPool \in Seq(IP)
      BY <2>1 DEF Add, PoolInv, PoolTypeOK
    <3>2. /\ Distance(start, NextIP(ip)) = Distance(start, ip) + 1
          /\ Distance(start, ip) < Distance(start, end)
      BY <3>1, StepsOfDistance DEF PoolInv, PoolIsTheInterval
    <3>3. Len(ipPool) = Distance(start, ip) /\ Len(ipPool) \in Nat
      BY <3>1 DEF PoolInv, PoolIsTheInterval
    <3>4. /\ ipPool' \in Seq(IP) /\ Len(ipPool') = Len(ipPool) + 1
          /\ \A k \in 1 .. Len(ipPool) : ipPool'[k] = ipPool[k]
          /\ ipPool'[Len(ipPool) + 1] = ip
      BY <2>1, <3>1 DEF Add
    <3>5. Distance(start, end) \in Nat
      <4>1. /\ Value(start) \in Nat /\ Value(start) < Size /\ Value(end) \in Nat
            /\ Size \in Nat
        BY <3>1, ValueType, ValueIsBounded, BaseAssumption DEF Size
      <4> QED BY <4>1 DEF Distance
    <3>6. PoolTypeOK'
      BY <2>1, <3>1, <3>4, NextIPAddsOne DEF Add, PoolTypeOK
    <3>7. Distance(start, ip)' = Distance(start, NextIP(ip)) /\ Distance(start, end)' = Distance(start, end)
      BY <2>1 DEF Add, Distance, Value
    <3>8. Len(ipPool') = Distance(start, ip)' /\ Len(ipPool') <= Distance(start, end)'
      BY <3>2, <3>3, <3>4, <3>5, <3>7
    <3>9. \A k \in 1 .. Len(ipPool') : Distance(start', ipPool'[k]) = k - 1
      <4> SUFFICES ASSUME NEW k \in 1 .. Len(ipPool') PROVE Distance(start, ipPool'[k]) = k - 1
        BY <2>1 DEF Add
      <4>1. CASE k \in 1 .. Len(ipPool)
        BY <3>4, <4>1 DEF PoolInv, PoolIsTheInterval
      <4>2. CASE k = Len(ipPool) + 1
        BY <3>3, <3>4, <4>2
      <4> QED BY <3>3, <3>4, <4>1, <4>2
    <3> QED BY <3>6, <3>8, <3>9 DEF PoolInv, PoolIsTheInterval
  <2>2. CASE UNCHANGED poolVars
    BY <2>2 DEF poolVars, PoolInv, PoolTypeOK, PoolIsTheInterval, Distance, Value
  <2> QED BY <2>1, <2>2
<1> QED BY <1>1, <1>2, PTL DEF PoolSpec

(* PoolTypeOK holds for bytes of any size and any two ends: every address   *)
(* of the pool, the loop's included, is one (cmd/smf/main.go:83-102).       *)
THEOREM PoolTypeCorrect == PoolSpec => []PoolTypeOK
BY PoolInvHolds, PTL DEF PoolInv

(* PoolIsTheInterval holds for bytes of any size and any two ends: nextIP   *)
(* skips, repeats and loses no address (cmd/smf/main.go:87-101).            *)
THEOREM PoolIsAnInterval == PoolSpec => []PoolIsTheInterval
BY PoolInvHolds, PTL DEF PoolInv
=============================================================================
