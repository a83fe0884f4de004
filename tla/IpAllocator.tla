---------------------------- MODULE IpAllocator ----------------------------
(***************************************************************************)
(* The search of allocateIP in internal/services/peer.go, byte by byte:    *)
(* from the network address, two steps on, and up through the subnet until *)
(* an address is not used.  Store.tla and PeerService.tla see only its     *)
(* result, the lowest free address after the first two of the subnet.      *)
(***************************************************************************)
EXTENDS Integers, Sequences

CONSTANTS
  Bytes,    \* bytes of an address, 4 in the code
  Bits      \* bits of a byte, 8 in the code

ASSUME IpAllocatorAssumption == Bytes \in Nat \ {0} /\ Bits \in Nat \ {0, 1}

Width == Bits * Bytes

\* Powers of two.
Pow2[n \in 0 .. Width] == IF n = 0 THEN 1 ELSE 2 * Pow2[n - 1]

Radix == Pow2[Bits]
IPs   == [1 .. Bytes -> 0 .. (Radix - 1)]

VARIABLES
  base,      \* ipNet.IP, the masked address of WG_SUBNET
  prefix,    \* its prefix length
  used,      \* addresses of the rows of vpn_peers
  current,   \* the loop's variable
  answer     \* "searching", "none", or "found": current is returned

allocVars == <<base, prefix, used, current, answer>>

\* The number an address stands for.
Value[n \in 0 .. Bytes] ==
  [ip \in IPs |-> IF n = 0 THEN 0 ELSE Value[n - 1][ip] * Radix + ip[n]]

Number(ip) == Value[Bytes][ip]

\* Mutant of IncIP: a byte that wraps does not carry.
IncWithoutCarry(ip) == [ip EXCEPT ![Bytes] = (@ + 1) % Radix]

\* Mutant of IncIP: a byte carries and does not wrap.
IncWithoutWrap(ip) ==
  [j \in 1 .. Bytes |-> IF (\A k \in j + 1 .. Bytes : ip[k] = Radix - 1) /\ ip[j] < Radix - 1
                        THEN ip[j] + 1
                        ELSE ip[j]]

\* incIP: a byte is incremented, and wraps, when every byte after it wrapped.
IncIP(ip) ==
  [j \in 1 .. Bytes |-> IF \A k \in j + 1 .. Bytes : ip[k] = Radix - 1
                        THEN (ip[j] + 1) % Radix
                        ELSE ip[j]]

\* ipNet.Contains: the first bits agree.
Hosts == Pow2[Width - prefix]
Contains(ip) == Number(ip) \div Hosts = Number(base) \div Hosts

Init ==
  /\ prefix \in 1 .. Width
  /\ base \in {ip \in IPs : Number(ip) % Hosts = 0}
  /\ used \in SUBSET {ip \in IPs : Contains(ip)}
  /\ current = IncIP(IncIP(base))
  /\ answer = "searching"

\* for ipNet.Contains(current)
Search ==
  /\ answer = "searching"
  /\ \/ /\ ~Contains(current)
        /\ answer' = "none"
        /\ UNCHANGED current
     \/ /\ Contains(current)
        /\ current \notin used
        /\ answer' = "found"
        /\ UNCHANGED current
     \/ /\ Contains(current)
        /\ current \in used
        /\ current' = IncIP(current)
        /\ UNCHANGED answer
  /\ UNCHANGED <<base, prefix, used>>

Spec == Init /\ [][Search]_allocVars /\ WF_allocVars(Search)

----------------------------------------------------------------------------
(* Properties. *)

\* The addresses a subnet can give out: neither the network's nor the server's.
Candidates == {ip \in IPs : Contains(ip) /\ Number(ip) >= Number(base) + 2}

\* The answer is the lowest free address of the subnet, and "no available IPs"
\* means that there is none: the carry of incIP neither skips nor repeats one.
AnswerIsLowestFree ==
  /\ answer = "none" => Candidates \subseteq used
  /\ answer = "found" =>
       /\ current \in Candidates \ used
       /\ \A ip \in Candidates \ used : Number(current) <= Number(ip)

\* The inductive form of AnswerIsLowestFree: the candidates before current are
\* used, and once current has left the subnet, for a higher address or by wrapping
\* to zero, all are.
AllocInv ==
  /\ prefix \in 1 .. Width /\ base \in IPs /\ current \in IPs
  /\ Number(base) % Hosts = 0
  /\ AnswerIsLowestFree
  /\ answer = "searching" =>
       \/ /\ Number(current) >= Number(base) + 2
          /\ \A ip \in Candidates : Number(ip) < Number(current) => ip \in used
       \/ ~Contains(current) /\ Candidates \subseteq used

\* The loop ends, also in the last subnet of the address space, where incIP
\* wraps to zero.
SearchEnds == <>(answer # "searching")
============================================================================
