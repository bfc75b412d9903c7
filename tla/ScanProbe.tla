------------------------------ MODULE ScanProbe ------------------------------
(***************************************************************************)
(* What a scan finds: the warm-up of the neighbour table, the reading of   *)
(* it, the list of addresses, the TCP probes and the verification          *)
(* (backend/security.py and _scan_worker of backend/routes/scan.py), all   *)
(* on the thread pool the batches use too, while leases move.              *)
(*                                                                         *)
(* Scan follows the scan's status and saves what is found here.  A device  *)
(* stands for its MAC; the kernel's neighbour table changes when a device  *)
(* answers the server.                                                     *)
(***************************************************************************)
EXTENDS Integers, FiniteSets

CONSTANTS
    Hosts, Boards,     \* devices with port 80 open; those that are boards
    Size,              \* the network's addresses are 1..Size
    Limit,             \* CIDRFALLBACKLIMIT
    PoolSize,          \* size of the pool
    Deadline,          \* the warm-up's time, in ticks; a ping waits for one
    MaxLoad,           \* bound: tasks of batches ahead in the pool
    MaxMoves,          \* bound: leases that move
    MaxLosses,         \* bound: probes that are lost
    None

ASSUME ScanProbeConstants ==
    /\ Boards \subseteq Hosts /\ None \notin Hosts
    /\ {Size, Limit, PoolSize, Deadline} \subseteq Nat \ {0}
    /\ {MaxLoad, MaxMoves, MaxLosses} \subseteq Nat

VARIABLES
    where,      \* each device's address, 0 when it has none
    neighbour,  \* the kernel's table: the device at each address, or None
    phase,      \* the scan's place
    todo,       \* addresses the phase has still to do
    pinging,    \* pings under way: <<address, the tick it began>>
    now,        \* ticks since the warm-up began
    load,       \* tasks of batches that are before the scan's in the pool
    arptable,   \* the table as it was read
    iplist,     \* the addresses to probe
    found,      \* results: address, MAC and the device that answered
    moves, losses,
    \* history
    pinged,     \* addresses that were pinged
    moved       \* devices that changed their address during the scan

network == <<where, neighbour, moves, moved>>
results == <<arptable, iplist, found>>
probeVars == <<network, phase, todo, pinging, now, load, results, losses, pinged>>

Addrs == 1..Size
Phases == {"warm", "arp", "tcp", "verify", "done"}
Lowest(n, addrs) == {a \in addrs : Cardinality({b \in addrs : b < a}) < n}

\* What a device left in the table before the scan may be out of date.
ProbeInit ==
    /\ where \in {w \in [Hosts -> Addrs \cup {0}] :
                     \A d, e \in Hosts : (w[d] = w[e] /\ w[d] # 0) => d = e}
    /\ neighbour \in [Addrs -> Hosts \cup {None}]
    /\ phase = "warm"
    /\ todo = Lowest(Limit, Addrs)
    /\ pinging = {} /\ now = 0
    /\ load \in 0..MaxLoad
    /\ arptable = [a \in Addrs |-> None] /\ iplist = {} /\ found = {}
    /\ moves = 0 /\ losses = 0 /\ pinged = {} /\ moved = {}

At(a) == {d \in Hosts : where[d] = a}

\* A device that answers is in the table afterwards.
Met(a) == IF At(a) = {} THEN neighbour
          ELSE [neighbour EXCEPT ![a] = CHOOSE d \in Hosts : where[d] = a]

-----------------------------------------------------------------------------
\* prewarm_neighbors.
FreeWorker == Cardinality(pinging) + load < PoolSize

\* Mutant: an address the table knows is not pinged.
PingUnknown(a) ==
    /\ pinged' = pinged \cup {a}
    /\ neighbour' = IF neighbour[a] = None THEN Met(a) ELSE neighbour
    /\ pinging' = IF At(a) = {} /\ neighbour[a] = None THEN pinging \cup {<<a, now>>} ELSE pinging

\* A device answers at once; for an address without one, ping waits.
Ping(a) ==
    /\ pinged' = pinged \cup {a}
    /\ neighbour' = Met(a)
    /\ pinging' = IF At(a) = {} THEN pinging \cup {<<a, now>>} ELSE pinging

\* The pool takes its tasks in order; past the deadline a task returns at once.
StartPing ==
    /\ phase = "warm" /\ FreeWorker
    /\ \E a \in Lowest(1, todo) :
          /\ todo' = todo \ {a}
          /\ IF now >= Deadline THEN UNCHANGED <<pinged, neighbour, pinging>> ELSE Ping(a)
    /\ UNCHANGED <<where, moves, moved, phase, now, load, results, losses>>

Over(p) == now > p[2]

EndPing ==
    /\ \E p \in pinging : Over(p) /\ pinging' = pinging \ {p} /\ neighbour' = Met(p[1])
    /\ UNCHANGED <<where, moves, moved, phase, todo, now, load, results, losses, pinged>>

WarmEnds ==
    /\ phase = "warm" /\ todo = {} /\ pinging = {}
    /\ phase' = "arp"
    /\ UNCHANGED <<network, todo, pinging, now, load, results, losses, pinged>>

\* A task of another batch ends.
Release ==
    /\ load > 0 /\ load' = load - 1
    /\ UNCHANGED <<network, phase, todo, pinging, now, results, losses, pinged>>

\* Time passes only when no task is ready to run.
Tick ==
    /\ phase = "warm" /\ now <= Deadline
    /\ todo # {} => ~FreeWorker
    /\ \A p \in pinging : ~Over(p)
    /\ now' = now + 1
    /\ UNCHANGED <<network, phase, todo, pinging, load, results, losses, pinged>>

-----------------------------------------------------------------------------
\* _scan_worker.

\* Mutant: the neighbours are not put first.
ListedInOrder(known) == {Lowest(Limit, Addrs)}

\* Mutant: the neighbours come without a limit.
ListedUncapped(known) == {known \cup Lowest(Limit, Addrs)}

\* First the addresses the table knows, in the table's order, then the first
\* hosts of the network, up to the limit.
Listed(known) ==
    IF Cardinality(known) >= Limit THEN {s \in SUBSET known : Cardinality(s) = Limit}
    ELSE {known \cup Lowest(Limit - Cardinality(known), Lowest(Limit, Addrs) \ known)}

ReadTable ==
    /\ phase = "arp"
    /\ arptable' = neighbour
    /\ iplist' \in Listed({a \in Addrs : neighbour[a] # None})
    /\ todo' = iplist' /\ phase' = "tcp"
    /\ UNCHANGED <<network, pinging, now, load, found, losses, pinged>>

\* A probe that is lost counts as no answer.
Lost == losses < MaxLosses /\ losses' = losses + 1

\* The open ports are verified when all are known: open80 is what found holds
\* without a device.
Open80(a) == [ip |-> a, mac |-> None, dev |-> None]

Tcp(a) ==
    /\ phase = "tcp" /\ a \in todo
    /\ todo' = todo \ {a}
    /\ \/ /\ found' = IF At(a) = {} THEN found ELSE found \cup {Open80(a)}
          /\ neighbour' = Met(a) /\ UNCHANGED losses
       \/ At(a) # {} /\ Lost /\ UNCHANGED <<found, neighbour>>
    /\ UNCHANGED <<where, moves, moved, phase, pinging, now, load, arptable, iplist, pinged>>

TcpEnds ==
    /\ phase = "tcp" /\ todo = {}
    /\ phase' = "verify" /\ todo' = {f.ip : f \in found}
    /\ UNCHANGED <<network, pinging, now, load, results, losses, pinged>>

\* istargetdevice asks whoever has the address by now; the MAC is the table's.
Probe(a) ==
    /\ phase = "verify" /\ a \in todo
    /\ todo' = todo \ {a}
    /\ LET others == found \ {Open80(a)} IN
       \/ /\ found' = others \cup {[ip |-> a, mac |-> arptable[a], dev |-> d] : d \in At(a) \cap Boards}
          /\ UNCHANGED losses
       \/ found' = others /\ At(a) # {} /\ Lost
    /\ UNCHANGED <<network, phase, pinging, now, load, arptable, iplist, pinged>>

VerifyEnds ==
    /\ phase = "verify" /\ todo = {}
    /\ phase' = "done"
    /\ UNCHANGED <<network, todo, pinging, now, load, results, losses, pinged>>

Scanning ==
    \/ StartPing \/ EndPing \/ WarmEnds \/ ReadTable
    \/ (\E a \in Addrs : Tcp(a) \/ Probe(a)) \/ TcpEnds \/ VerifyEnds

\* A lease moves, ends or begins.
Move(d) ==
    /\ phase # "done" /\ moves < MaxMoves /\ moves' = moves + 1
    /\ \E a \in Addrs \cup {0} : a # where[d] /\ (a = 0 \/ At(a) = {}) /\ where' = [where EXCEPT ![d] = a]
    /\ moved' = moved \cup {d}
    /\ UNCHANGED <<neighbour, phase, todo, pinging, now, load, results, losses, pinged>>

ProbeNext == Scanning \/ Release \/ Tick \/ (\E d \in Hosts : Move(d))

ProbeSpec == ProbeInit /\ [][ProbeNext]_probeVars

-----------------------------------------------------------------------------
\* Types; the list keeps to its limit.
ProbeTypeOK ==
    /\ where \in [Hosts -> Addrs \cup {0}]
    /\ neighbour \in [Addrs -> Hosts \cup {None}] /\ arptable \in [Addrs -> Hosts \cup {None}]
    /\ phase \in Phases /\ todo \subseteq Addrs
    /\ pinging \subseteq Addrs \X Nat /\ Cardinality(pinging) <= PoolSize
    /\ now \in Nat /\ load \in Nat /\ moves \in Nat /\ losses \in Nat
    /\ iplist \subseteq Addrs /\ Cardinality(iplist) <= Limit
    /\ found \subseteq [ip : iplist, mac : Hosts \cup {None}, dev : Boards \cup {None}]
    /\ pinged \subseteq Addrs /\ moved \subseteq Hosts

Known == {a \in Addrs : arptable[a] # None}

\* A board that stays where it is while nothing is lost is found, if the network
\* is within the limit; beyond it, if the table knows its address and the known
\* addresses are within the limit.
AnswerersAreFound ==
    (phase = "done" /\ losses = 0) =>
        \A d \in Boards :
            (d \notin moved /\ where[d] # 0
             /\ (Size <= Limit \/ (where[d] \in Known /\ Cardinality(Known) <= Limit)))
               => \E f \in found : f.ip = where[d] /\ f.dev = d

\* A board is recorded with the MAC of another device only when a lease of one of
\* the two moved during the scan, or the warm-up did not reach its address.
MacsAreTheirs ==
    \A f \in found :
        \/ f.dev = None \/ f.mac \in {None, f.dev}
        \/ {f.mac, f.dev} \cap moved # {} \/ f.ip \notin pinged

\* security.py:207: the warm-up pings the potential hosts before scanning.
EveryHostIsPinged == phase # "warm" => Lowest(Limit, Addrs) \subseteq pinged
=============================================================================
