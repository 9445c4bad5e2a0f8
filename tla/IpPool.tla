------------------------------- MODULE IpPool -------------------------------
(***************************************************************************)
(* How the GTP-C SMF fills its address pool (cmd/smf/main.go): initIPPool   *)
(* walks from the first address to the last with nextIP, which adds one to  *)
(* an address byte by byte. One step is one turn of the loop.               *)
(*                                                                          *)
(* An address is four digits, the bytes, with Base = 256 in the code.       *)
(***************************************************************************)
EXTENDS Naturals, Sequences

CONSTANT Base

ASSUME BaseAssumption == Base \in Nat /\ Base > 1

Digit == 0 .. Base - 1

IP == [1 .. 4 -> Digit]

VARIABLES start, end,   \* the constants IPoolStart and IPoolEnd
          ip,           \* the loop's variable
          ipPool

poolVars == <<start, end, ip, ipPool>>

(* Mutant: the loop goes on while the byte it has written is not 0.         *)
NextIPCarriesWrongly(a) ==
  [i \in 1 .. 4 |-> IF \A j \in i + 1 .. 4 : a[j] # Base - 1 THEN (a[i] + 1) % Base ELSE a[i]]

(* Mutant: the bytes are wider than what is counted in them.                *)
NextIPWide(a) == [a EXCEPT ![4] = @ + 1]

(* From the last byte on: add one, stop at the first byte that is not 0     *)
(* then. So a byte is reached if all bytes after it were at their largest.  *)
NextIP(a) ==
  [i \in 1 .. 4 |-> IF \A j \in i + 1 .. 4 : a[j] = Base - 1 THEN (a[i] + 1) % Base ELSE a[i]]

PoolInit ==
  /\ start \in IP /\ end \in IP
  /\ ip = start
  /\ ipPool = <<>>

(* Mutant: the address is added after it is advanced, as if by reference.   *)
AddAdvanced ==
  /\ ip # end
  /\ ip' = NextIP(ip)
  /\ ipPool' = Append(ipPool, ip')
  /\ UNCHANGED <<start, end>>

Add ==
  /\ ip # end
  /\ ipPool' = Append(ipPool, ip)
  /\ ip' = NextIP(ip)
  /\ UNCHANGED <<start, end>>

PoolSpec == PoolInit /\ [][Add]_poolVars /\ WF_poolVars(Add)
-----------------------------------------------------------------------------
PoolTypeOK ==
  /\ start \in IP /\ end \in IP /\ ip \in IP
  /\ ipPool \in Seq(IP)

(* The address as the number it stands for. *)
Value(a) == ((a[1] * Base + a[2]) * Base + a[3]) * Base + a[4]

Size == Base * Base * Base * Base

(* How far it is upwards from a to b; after the largest address comes 0. *)
Distance(a, b) ==
  IF Value(b) >= Value(a) THEN Value(b) - Value(a) ELSE Value(b) + Size - Value(a)

(* The pool is the run of consecutive addresses from the first one on, each *)
(* once and in order, and never goes past the last one: the carry loses,    *)
(* repeats and skips no address (cmd/smf/main.go:87-101).                   *)
PoolIsTheInterval ==
  /\ Len(ipPool) = Distance(start, ip)
  /\ Len(ipPool) <= Distance(start, end)
  /\ \A k \in 1 .. Len(ipPool) : Distance(start, ipPool[k]) = k - 1

(* The loop ends, whichever two addresses the pool lies between, and the    *)
(* pool then has every address from the first to the one before the last    *)
(* (cmd/smf/main.go:87).                                                    *)
PoolIsFilled == <>[](ip = end /\ Len(ipPool) = Distance(start, end))
=============================================================================
