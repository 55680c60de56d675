-------------------------- MODULE Deployment_proofs --------------------------
(***************************************************************************)
(* For every list of machines: replicas run where their configuration says *)
(* they do, with their own keys, the replicas of a run keep off each       *)
(* other's ports, and no two processes share a log.                        *)
(***************************************************************************)
EXTENDS Deployment, FiniteSetTheorems, TLAPS

Kinds == {"replica", "client"}

(* Rows of one host have different indices. *)
Distinct(rows) ==
  \A i, j \in DOMAIN rows :
    rows[i].host = rows[j].host /\ rows[i].host_idx = rows[j].host_idx => i = j

(* The key of a replica line is the one in the file of its row. *)
KeysAgree == \A i \in DOMAIN main : i \in DOMAIN sec /\ main[i].key = sec[i]

(* A replica line names the host of its row. *)
HostsAgree ==
  \A i \in DOMAIN main :
    /\ i \in DOMAIN inventory.nodes
    /\ Owner[main[i].addr.ip] = inventory.nodes[i].host

(* The processes of the run that is being started come from the inventory. *)
Started ==
  \A p \in procs : p.run = run =>
    /\ p.idx \in DOMAIN Rows(kind) \ todo
    /\ p.log_dir = << Rows(kind)[p.idx].host, run, Rows(kind)[p.idx].host_idx >>

Inv ==
  /\ lists \in Lists /\ keys \in [1 .. 2 -> Nat]
  /\ kind \in Kinds /\ run \in Nat
  /\ \A p \in procs : p.run \in Nat /\ p.run <= run /\ p.log_dir[2] = p.run
  /\ todo # {} => Idle /\ todo \subseteq DOMAIN Rows(kind) /\ Started
  /\ ~Idle => inventory.nodes = Nodes(lists)
  /\ ~Idle /\ step # "conf" => main = << >>
  /\ KeysAgree
  /\ step \notin {"cut", "conf"} => HostsAgree
  /\ Distinct(inventory.nodes) /\ Distinct(inventory.clients)
  /\ NamedWhereRun
  /\ OwnLogs

(* Of two equal rows the later one has more of them before it.             *)
LEMMA EarlierGrows ==
  ASSUME NEW column, NEW j \in Nat, NEW i \in 1 .. j - 1, column[i] = column[j]
  PROVE  Earlier(column, i) # Earlier(column, j)
  <1> DEFINE Same(k) == {x \in 1 .. k - 1 : column[x] = column[k]}
  <1>1. IsFiniteSet(Same(i)) /\ IsFiniteSet(Same(j))
    <2>1. IsFiniteSet(1 .. i - 1) /\ IsFiniteSet(1 .. j - 1)  BY FS_Interval
    <2>2. Same(i) \subseteq 1 .. i - 1 /\ Same(j) \subseteq 1 .. j - 1  OBVIOUS
    <2> QED  BY <2>1, <2>2, FS_Subset
  <1>2. Same(i) \cup {i} \subseteq Same(j) /\ i \notin Same(i)
    OBVIOUS
  <1> HIDE DEF Same
  <1>3. /\ Cardinality(Same(i) \cup {i}) = Cardinality(Same(i)) + 1
        /\ IsFiniteSet(Same(i) \cup {i})
    BY <1>1, <1>2, FS_AddElement
  <1>4. Cardinality(Same(i) \cup {i}) <= Cardinality(Same(j))
    BY <1>1, <1>2, FS_Subset
  <1>5. Cardinality(Same(i)) \in Nat /\ Cardinality(Same(j)) \in Nat
    BY <1>1, FS_CardinalityType
  <1>6. Cardinality(Same(i)) # Cardinality(Same(j))
    BY <1>3, <1>4, <1>5
  <1> QED  BY <1>6 DEF Earlier, Same

(* gen_inventory.py gives the processes of a machine different indices.    *)
LEMMA InventoryDistinct ==
  ASSUME NEW l \in Lists
  PROVE  Distinct(Nodes(l)) /\ Distinct(Clients(l))
  <1>1. l.replicas \in Seq(Row) /\ l.clients \in Seq(Machine)
    BY DeployAssumption
  <1>2. Distinct(Nodes(l))
    <2> DEFINE pubs == Pub(l.replicas)
    <2>1. SUFFICES ASSUME NEW i \in DOMAIN l.replicas, NEW j \in DOMAIN l.replicas,
                          pubs[i] = pubs[j], Earlier(pubs, i) = Earlier(pubs, j)
                   PROVE  i = j
      BY DEF Nodes, Distinct, Pub
    <2>2. DOMAIN l.replicas = 1 .. Len(l.replicas) /\ Len(l.replicas) \in Nat
      BY <1>1
    <2> HIDE DEF pubs
    <2>3. ~(i < j)  BY <2>1, <2>2, EarlierGrows
    <2>4. ~(j < i)  BY <2>1, <2>2, EarlierGrows
    <2> QED  BY <2>2, <2>3, <2>4
  <1>3. Distinct(Clients(l))
    <2>1. CASE Len(Pub(l.replicas)) = 0
      BY <2>1 DEF Clients, Distinct
    <2>2. CASE Len(Pub(l.replicas)) # 0
      <3> DEFINE n == Len(Pub(l.replicas))
                 c == Earlier(Pub(l.replicas), n)
      <3>1. n \in Nat  BY <1>1 DEF Pub
      <3>2. c \in Nat
        <4>1. IsFiniteSet(1 .. n - 1)  BY <3>1, FS_Interval
        <4> QED  BY <4>1, FS_Subset, FS_CardinalityType DEF Earlier
      <3>3. Clients(l) = [i \in DOMAIN l.clients |->
                            [host |-> l.clients[i], host_idx |-> c + i]]
        BY <2>2 DEF Clients
      <3>4. DOMAIN l.clients = 1 .. Len(l.clients) /\ Len(l.clients) \in Nat  BY <1>1
      <3> HIDE DEF c, n
      <3> QED  BY <3>2, <3>3, <3>4 DEF Distinct
    <2> QED  BY <2>1, <2>2
  <1> QED  BY <1>2, <1>3
------------------------------------------------------------------------------
(* The initial state satisfies the invariant. *)
LEMMA InitInv == DeployInit => Inv
  <1> SUFFICES ASSUME DeployInit PROVE Inv
    OBVIOUS
  <1>1. keys \in [1 .. 2 -> Nat]  BY DEF DeployInit
  <1>2. Distinct(inventory.nodes) /\ Distinct(inventory.clients)
    BY DEF DeployInit, Distinct
  <1>3. KeysAgree /\ HostsAgree /\ NamedWhereRun /\ OwnLogs
    BY DEF DeployInit, KeysAgree, HostsAgree, NamedWhereRun, OwnLogs
  <1> QED  BY <1>1, <1>2, <1>3 DEF DeployInit, Inv, Kinds, Idle

(* The lists and the inventory change only while nothing is being started. *)
LEMMA EditInv == Inv /\ (\E l \in Lists : EditLists(l)) => Inv'
  BY DEF Inv, EditLists, runVars, Idle, KeysAgree, HostsAgree, NamedWhereRun, OwnLogs,
         Distinct, Started, Rows

(* gen_inventory.py keeps the invariant. *)
LEMMA GenInventoryInv == Inv /\ GenInventory => Inv'
  <1> SUFFICES ASSUME Inv, GenInventory PROVE Inv'
    OBVIOUS
  <1>1. /\ inventory'.nodes = Nodes(lists) /\ inventory'.clients = Clients(lists)
        /\ step' = "conf" /\ todo = {}
        /\ UNCHANGED << lists, keys, main, sec, todo, run, kind, procs >>
    BY DEF GenInventory, runVars
  <1>2. Distinct(inventory.nodes)' /\ Distinct(inventory.clients)'
    BY <1>1, InventoryDistinct DEF Inv, Distinct
  <1>3. NamedWhereRun' /\ OwnLogs' /\ KeysAgree'
    BY <1>1 DEF Inv, NamedWhereRun, OwnLogs, KeysAgree
  <1>4. inventory'.nodes = Nodes(lists')  BY <1>1
  <1> QED  BY <1>1, <1>2, <1>3, <1>4 DEF Inv, Idle

(* gen_conf.py writes nothing until it has emptied the file, if it comes   *)
(* to that.                                                                *)
LEMMA GenConfInv == Inv /\ (CutShort \/ OpenConf \/ \E t \in 1 .. 2 : Keygen(t)) => Inv'
  <1>1. ASSUME Inv, OpenConf PROVE Inv'
    <2>1. KeysAgree' /\ HostsAgree'  BY <1>1 DEF OpenConf, KeysAgree, HostsAgree
    <2> QED
      BY <1>1, <2>1 DEF Inv, Idle, OpenConf, runVars, NamedWhereRun, OwnLogs, Distinct
  <1>2. ASSUME Inv, NEW t \in 1 .. 2, Keygen(t) PROVE Inv'
    <2>1. /\ step \in {"keygen", "tls_keygen"}
          /\ step' \in {"idle", "tls_keygen", "write"}
          /\ UNCHANGED << lists, inventory, main, sec, todo, run, kind, procs >>
      BY <1>2 DEF Keygen, runVars
    <2>2. keys' \in [1 .. 2 -> Nat]
      <3>1. CASE UNCHANGED keys  BY <1>2, <3>1 DEF Inv
      <3>2. CASE \E n \in 0 .. Len(lists.replicas) : keys' = [keys EXCEPT ![t] = n]
        BY <1>2, <3>2 DEF Inv
      <3> QED  BY <1>2, <3>1, <3>2 DEF Keygen
    <2>3. /\ ~Idle /\ step # "conf" /\ step' # "cut"
          /\ main = << >> /\ todo = {} /\ inventory.nodes = Nodes(lists)
      BY <1>2, <2>1 DEF Inv, Idle
    <2>4. KeysAgree' /\ HostsAgree' /\ NamedWhereRun' /\ OwnLogs'
      BY <1>2, <2>1, <2>3 DEF Inv, KeysAgree, HostsAgree, NamedWhereRun, OwnLogs
    <2> QED
      BY <1>2, <2>1, <2>2, <2>3, <2>4 DEF Inv, Distinct, Nodes
  <1>3. ASSUME Inv, CutShort PROVE Inv'
    <2>1. /\ step' = "cut" /\ todo = {}
          /\ UNCHANGED << lists, inventory, keys, main, sec, todo, run, kind, procs >>
      BY <1>3 DEF Inv, Idle, CutShort, runVars
    <2> QED
      BY <1>3, <2>1 DEF Inv, Idle, KeysAgree, NamedWhereRun, OwnLogs, Distinct
  <1> QED  BY <1>1, <1>2, <1>3

(* The replica lines are those of the first rows of the inventory. *)
LEMMA WriteConfInv == Inv /\ WriteConf => Inv'
  <1> SUFFICES ASSUME Inv, WriteConf PROVE Inv'
    OBVIOUS
  <1> DEFINE m == Len(lists.replicas)
             n == Least(m, Least(keys[1], keys[2]))
  <1>1. /\ todo = {} /\ step' = "idle" /\ inventory.nodes = Nodes(lists)
        /\ UNCHANGED << lists, inventory, keys, todo, run, kind, procs >>
        /\ main' = [i \in 1 .. n |-> [addr |-> Replicas(lists.replicas)[i], key |-> << gen, i >>]]
        /\ sec' = [i \in DOMAIN sec \cup 1 .. n |-> IF i <= n THEN << gen, i >> ELSE sec[i]]
    BY DEF Inv, Idle, WriteConf, runVars
  <1>2. lists.replicas \in Seq(Row) /\ m \in Nat
        /\ \A i \in DOMAIN lists.replicas :
             Owner[lists.replicas[i].priv] = lists.replicas[i].pub
    BY DeployAssumption DEF Inv
  <1>3. n \in Nat /\ n <= m
    BY <1>2 DEF Inv, Least
  <1>4. DOMAIN lists.replicas = 1 .. m  BY <1>2
  <1> HIDE DEF n, m
  <1>5. \A i \in 1 .. n : /\ Owner[main'[i].addr.ip] = inventory.nodes[i].host
                          /\ i \in DOMAIN inventory.nodes
    <2> TAKE i \in 1 .. n
    <2>1. i \in DOMAIN lists.replicas  BY <1>2, <1>3, <1>4
    <2>2. main'[i].addr.ip = lists.replicas[i].priv  BY <1>1, <2>1 DEF Replicas
    <2>3. /\ i \in DOMAIN inventory.nodes
          /\ inventory.nodes[i].host = lists.replicas[i].pub
      BY <1>1, <2>1 DEF Nodes
    <2> QED  BY <1>2, <2>1, <2>2, <2>3
  <1>6. KeysAgree' /\ HostsAgree'
    <2>1. DOMAIN main' = 1 .. n  BY <1>1
    <2>2. \A i \in 1 .. n : i \in DOMAIN sec' /\ main'[i].key = sec'[i]
      BY <1>1, <1>3
    <2>3. inventory' = inventory /\ Owner' = Owner  BY <1>1
    <2> QED  BY <1>5, <2>1, <2>2, <2>3 DEF KeysAgree, HostsAgree
  <1> QED  BY <1>1, <1>6 DEF Inv, Idle, NamedWhereRun, OwnLogs, Distinct
------------------------------------------------------------------------------
(* A run takes up the rows of the inventory as it is. *)
LEMMA NewRunInv == Inv /\ (\E k \in Kinds : NewRun(k)) => Inv'
  <1> SUFFICES ASSUME Inv, NEW k \in Kinds, NewRun(k) PROVE Inv'
    OBVIOUS
  <1>1. /\ run' = run + 1 /\ kind' = k /\ Idle
        /\ UNCHANGED << lists, inventory, step, gen, keys, main, sec, procs >>
    BY DEF NewRun, genVars
  <1>2. todo' = DOMAIN Rows(kind)'
    BY <1>1 DEF NewRun, Rows
  <1>3. \A p \in procs' : p.run \in Nat /\ p.run <= run' /\ p.log_dir[2] = p.run /\ p.run # run'
    BY <1>1 DEF Inv
  <1>4. Started'  BY <1>3 DEF Started
  <1>5. KeysAgree' /\ (HostsAgree => HostsAgree') /\ NamedWhereRun' /\ OwnLogs'
        /\ Distinct(inventory.nodes)' /\ Distinct(inventory.clients)'
    BY <1>1 DEF Inv, KeysAgree, HostsAgree, NamedWhereRun, OwnLogs, Distinct
  <1> QED  BY <1>1, <1>2, <1>3, <1>4, <1>5 DEF Inv, Idle

(* The process that is launched runs on the host of its row, whose line    *)
(* and file agree, in a directory that no other row has.                   *)
LEMMA LaunchInv == Inv /\ (\E i \in todo : LaunchReplica(i) \/ LaunchClient(i)) => Inv'
  <1> SUFFICES ASSUME Inv, NEW i \in todo, LaunchReplica(i) \/ LaunchClient(i) PROVE Inv'
    OBVIOUS
  <1> DEFINE P == Process(i, IF kind = "replica" THEN sec[i] ELSE << >>)
  <1>1. /\ todo' = todo \ {i} /\ Idle /\ todo \subseteq DOMAIN Rows(kind)
        /\ Started /\ KeysAgree /\ (step # "cut" => HostsAgree) /\ kind \in Kinds /\ run \in Nat
        /\ UNCHANGED << lists, inventory, step, gen, keys, main, sec, run, kind >>
    BY DEF Inv, Idle, LaunchReplica, LaunchClient, genVars
  <1>2. /\ P.kind = kind /\ P.idx = i /\ P.run = run /\ P.main = main
        /\ P.host = Rows(kind)[i].host /\ P.cut = (step = "cut")
        /\ P.log_dir = << P.host, run, Rows(kind)[i].host_idx >>
        /\ kind = "replica" => P.key = sec[i]
    BY DEF Process
  <1> HIDE DEF P
  <1>3. CASE procs' = procs
    <2>1. Started'  BY <1>1, <1>3 DEF Started, Rows
    <2> QED  BY <1>1, <1>3, <2>1
             DEF Inv, Idle, KeysAgree, HostsAgree, NamedWhereRun, OwnLogs, Distinct, Rows
  <1>4. CASE procs' = procs \cup {P}
    <2>1. Started'
      <3>1. i \in DOMAIN Rows(kind)  BY <1>1
      <3> QED  BY <1>1, <1>2, <1>4, <3>1 DEF Started, Rows
    <2>2. NamedWhereRun'
      <3>1. P.kind = "replica" /\ P.idx \in DOMAIN P.main =>
              /\ P.main[P.idx].key = P.key
              /\ P.cut \/ Owner[P.main[P.idx].addr.ip] = P.host
        BY <1>1, <1>2 DEF KeysAgree, HostsAgree, Rows
      <3> QED  BY <1>4, <3>1 DEF Inv, NamedWhereRun
    <2>3. OwnLogs'
      <3>1. \A q \in procs : q.log_dir # P.log_dir
        <4>1. SUFFICES ASSUME NEW q \in procs, q.log_dir = P.log_dir PROVE FALSE
          OBVIOUS
        <4>2. q.run = run  BY <4>1, <1>2 DEF Inv
        <4>3. /\ q.idx \in DOMAIN Rows(kind) \ todo
              /\ q.log_dir = << Rows(kind)[q.idx].host, run, Rows(kind)[q.idx].host_idx >>
          BY <1>1, <4>2 DEF Started
        <4>4. /\ Rows(kind)[q.idx].host = Rows(kind)[i].host
              /\ Rows(kind)[q.idx].host_idx = Rows(kind)[i].host_idx
          BY <1>2, <4>1, <4>3
        <4>5. Distinct(Rows(kind))  BY DEF Inv, Rows
        <4>6. q.idx = i  BY <1>1, <4>3, <4>4, <4>5 DEF Distinct
        <4> QED  BY <4>3, <4>6
      <3> QED  BY <1>4, <3>1 DEF Inv, OwnLogs
    <2>4. \A p \in procs' : p.run \in Nat /\ p.run <= run' /\ p.log_dir[2] = p.run
      BY <1>1, <1>2, <1>4 DEF Inv
    <2>5. /\ KeysAgree' /\ (HostsAgree => HostsAgree')
          /\ Distinct(inventory.nodes)' /\ Distinct(inventory.clients)'
      BY <1>1 DEF Inv, KeysAgree, HostsAgree, Distinct
    <2>6. todo' \subseteq DOMAIN Rows(kind)'  BY <1>1 DEF Rows
    <2> QED  BY <1>1, <2>1, <2>2, <2>3, <2>4, <2>5, <2>6 DEF Inv, Idle
  <1>5. procs' = procs \/ procs' = procs \cup {P}
    BY DEF LaunchReplica, LaunchClient, P
  <1> QED  BY <1>3, <1>4, <1>5

(* A process that comes up or exits keeps its files, and stopping only     *)
(* removes processes.                                                      *)
LEMMA BootInv == Inv /\ (\E p \in procs : Boot(p)) => Inv'
  <1> SUFFICES ASSUME Inv, NEW p \in procs, Boot(p) PROVE Inv'
    OBVIOUS
  <1>1. /\ UNCHANGED << lists, inventory, step, gen, keys, main, sec, todo, run, kind >>
        /\ \E s, b : procs' = (procs \ {p}) \cup {[p EXCEPT !.state = s, !.blocked = b]}
    BY DEF Boot, genVars
  <1>2. PICK s, b : procs' = (procs \ {p}) \cup {[p EXCEPT !.state = s, !.blocked = b]}
    BY <1>1
  <1> DEFINE r == [p EXCEPT !.state = s, !.blocked = b]
  <1>3. /\ r.kind = p.kind /\ r.idx = p.idx /\ r.host = p.host /\ r.run = p.run
        /\ r.log_dir = p.log_dir /\ r.main = p.main /\ r.key = p.key
        /\ r.cut = p.cut
    OBVIOUS
  <1> HIDE DEF r
  <1>4. procs' = (procs \ {p}) \cup {r}  BY <1>2 DEF r
  <1>5. NamedWhereRun' /\ OwnLogs'
    BY <1>3, <1>4 DEF Inv, NamedWhereRun, OwnLogs
  <1>6. todo # {} => Started'
    BY <1>1, <1>3, <1>4 DEF Inv, Started, Rows
  <1>7. \A q \in procs' : q.run \in Nat /\ q.run <= run /\ q.log_dir[2] = q.run
    BY <1>3, <1>4 DEF Inv
  <1> QED  BY <1>1, <1>5, <1>6, <1>7 DEF Inv, Idle, KeysAgree, HostsAgree, Distinct, Rows

(* Stopping a replica keeps the invariant. *)
LEMMA StopInv == Inv /\ (\E k \in 1 .. run : Stop(k)) => Inv'
  BY DEF Inv, Idle, Stop, genVars, KeysAgree, HostsAgree, NamedWhereRun, OwnLogs, Distinct, Rows
------------------------------------------------------------------------------
(* Every state of the deployment satisfies the invariant. *)
THEOREM DeployInv == DeploySpec => []Inv
  <1>1. Inv /\ [DeployNext]_deployVars => Inv'
    <2>1. ASSUME Inv, UNCHANGED deployVars PROVE Inv'
      BY <2>1 DEF Inv, Idle, deployVars, KeysAgree, HostsAgree, NamedWhereRun, OwnLogs,
                     Distinct, Started, Rows
    <2> QED  BY <2>1, EditInv, GenInventoryInv, GenConfInv, WriteConfInv, NewRunInv,
                LaunchInv, BootInv, StopInv DEF DeployNext, Kinds
  <1> QED  BY <1>1, InitInv, PTL DEF DeploySpec

(* For any lists, and wherever generations end, a replica that finds its   *)
(* line in hotstuff.gen.conf has the key of that line; it runs on the      *)
(* machine of the line unless the last generation ended with a new         *)
(* inventory before gen_conf.py had emptied the configuration.             *)
THEOREM ReplicasAreNamed == DeploySpec => []NamedWhereRun
  <1>1. Inv => NamedWhereRun  BY DEF Inv
  <1> QED  BY <1>1, DeployInv, PTL

(* No two processes write to the same logs, though gen_inventory.py counts *)
(* all clients under the machine of the last replica.                      *)
THEOREM LogsAreOwn == DeploySpec => []OwnLogs
  <1>1. Inv => OwnLogs  BY DEF Inv
  <1> QED  BY <1>1, DeployInv, PTL
------------------------------------------------------------------------------
(* The types, and that a generation and a run are counted when they begin. *)
Types ==
  /\ DeployTypeOK
  /\ ~Idle => gen >= 1
  /\ todo # {} => run >= 1

(* The ports of two replica lines differ where their addresses are the     *)
(* same, and no port is used for both purposes.                            *)
Ported(m) ==
  \A i, j \in DOMAIN m :
    /\ m[i].addr.pport < m[j].addr.cport
    /\ i # j /\ m[i].addr.ip = m[j].addr.ip =>
         m[i].addr.pport # m[j].addr.pport /\ m[i].addr.cport # m[j].addr.cport

(* The processes of a run have the same files, and one row each. *)
SameFiles ==
  /\ \A p, q \in procs : p.run = q.run => p.main = q.main /\ (p.idx = q.idx => p = q)
  /\ todo # {} => \A p \in procs : p.run = run => p.main = main

(* A replica is up only on the machine that its line names. *)
AtHome(p) == p.idx \in DOMAIN p.main /\ Owner[p.main[p.idx].addr.ip] = p.host

(* What keeps the replicas of a run from each other's ports. *)
PortsInv ==
  /\ Ported(main)
  /\ \A p \in procs : Ported(p.main)
  /\ SameFiles
  /\ \A p \in procs : p.kind = "replica" /\ p.state = "up" => AtHome(p)
  /\ OwnPorts

(* How many earlier rows there may be. *)
LEMMA EarlierBound ==
  ASSUME NEW column, NEW i \in Nat \ {0}
  PROVE  Earlier(column, i) \in 0 .. i - 1
  <1> DEFINE S == {x \in 1 .. i - 1 : column[x] = column[i]}
  <1>1. IsFiniteSet(1 .. i - 1) /\ Cardinality(1 .. i - 1) = i - 1
    BY FS_Interval
  <1>2. S \subseteq 1 .. i - 1
    OBVIOUS
  <1> HIDE DEF S
  <1>3. IsFiniteSet(S) /\ Cardinality(S) <= i - 1
    BY <1>1, <1>2, FS_Subset
  <1>4. Cardinality(S) \in Nat
    BY <1>3, FS_CardinalityType
  <1> QED BY <1>3, <1>4 DEF Earlier, S

(* What gen_inventory.py and gen_conf.py make of a list. *)
LEMMA GeneratedTypes ==
  ASSUME NEW l \in Lists
  PROVE  /\ Nodes(l) \in Seq(Node) /\ Clients(l) \in Seq(Node)
         /\ \A i \in DOMAIN l.replicas :
              Replicas(l.replicas)[i] \in [ip : Address, pport : Nat, cport : Nat]
  <1>1. /\ l.replicas \in Seq(Row) /\ l.clients \in Seq(Machine)
        /\ base_pport \in Nat /\ base_cport \in Nat
    BY DeployAssumption
  <1>2. /\ DOMAIN l.replicas = 1 .. Len(l.replicas) /\ Len(l.replicas) \in Nat
        /\ DOMAIN l.clients = 1 .. Len(l.clients) /\ Len(l.clients) \in Nat
        /\ \A i \in DOMAIN l.replicas : /\ l.replicas[i].pub \in Machine
                                        /\ l.replicas[i].priv \in Address
        /\ \A i \in DOMAIN l.clients : l.clients[i] \in Machine
    <2>1. /\ \A i \in DOMAIN l.replicas : l.replicas[i] \in Row
          /\ \A i \in DOMAIN l.clients : l.clients[i] \in Machine
      BY <1>1
    <2>2. \A r \in Row : r.pub \in Machine /\ r.priv \in Address
      BY DEF Row
    <2> QED BY <1>1, <2>1, <2>2
  <1>3. Nodes(l) \in Seq(Node)
    <2>1. \A i \in 1 .. Len(l.replicas) : Earlier(Pub(l.replicas), i) \in Nat
      BY <1>2, EarlierBound
    <2>2. Nodes(l) \in [1 .. Len(l.replicas) -> Node]
      BY <1>2, <2>1 DEF Nodes, Node
    <2> QED BY <1>2, <2>2
  <1>4. Clients(l) \in Seq(Node)
    <2> DEFINE n == Len(Pub(l.replicas))
               c == Earlier(Pub(l.replicas), n)
    <2>1. CASE n = 0
      BY <2>1 DEF Clients
    <2>2. CASE n # 0
      <3>1. n \in Nat  BY <1>2 DEF Pub
      <3>2. c \in Nat  BY <2>2, <3>1, EarlierBound
      <3>3. Clients(l) = [i \in DOMAIN l.clients |->
                            [host |-> l.clients[i], host_idx |-> c + i]]
        BY <2>2 DEF Clients
      <3> HIDE DEF c, n
      <3>4. Clients(l) \in [1 .. Len(l.clients) -> Node]
        BY <1>2, <3>2, <3>3 DEF Node
      <3> QED BY <1>2, <3>4
    <2> QED BY <2>1, <2>2
  <1>5. ASSUME NEW i \in DOMAIN l.replicas
        PROVE  Replicas(l.replicas)[i] \in [ip : Address, pport : Nat, cport : Nat]
    <2>1. Earlier(Priv(l.replicas), i) \in Nat  BY <1>2, EarlierBound
    <2> QED BY <1>1, <1>2, <2>1 DEF Replicas
  <1> QED BY <1>3, <1>4, <1>5

(* Two lines of gen_conf.py never share a port on an address, and the      *)
(* ports for replicas end before those for clients begin.                  *)
LEMMA ReplicasPorted ==
  ASSUME NEW l \in Lists,
         NEW i \in DOMAIN l.replicas, NEW j \in DOMAIN l.replicas,
         NEW a, a = Replicas(l.replicas)[i], NEW b, b = Replicas(l.replicas)[j]
  PROVE  /\ a.pport < b.cport
         /\ i # j /\ a.ip = b.ip => a.pport # b.pport /\ a.cport # b.cport
  <1> DEFINE col == Priv(l.replicas)
             x == Earlier(col, i)
             y == Earlier(col, j)
  <1>1. /\ l.replicas \in Seq(Row)
        /\ base_pport \in Nat /\ base_cport \in Nat
        /\ base_pport + Len(l.replicas) <= base_cport
    BY DeployAssumption
  <1>2. DOMAIN l.replicas = 1 .. Len(l.replicas) /\ Len(l.replicas) \in Nat
    BY <1>1
  <1>3. /\ a = [ip |-> l.replicas[i].priv, pport |-> base_pport + x, cport |-> base_cport + x]
        /\ b = [ip |-> l.replicas[j].priv, pport |-> base_pport + y, cport |-> base_cport + y]
        /\ col[i] = l.replicas[i].priv /\ col[j] = l.replicas[j].priv
    BY DEF Replicas, Priv
  <1>4. x \in 0 .. i - 1 /\ y \in 0 .. j - 1
    BY <1>2, EarlierBound
  <1>5. i # j /\ col[i] = col[j] => x # y
    <2> HIDE DEF col
    <2>1. i < j /\ col[i] = col[j] => x # y  BY <1>2, EarlierGrows
    <2>2. j < i /\ col[i] = col[j] => x # y  BY <1>2, EarlierGrows
    <2> QED BY <1>2, <2>1, <2>2
  <1> HIDE DEF col, x, y
  <1>6. /\ a.ip = col[i] /\ a.pport = base_pport + x /\ a.cport = base_cport + x
        /\ b.ip = col[j] /\ b.pport = base_pport + y /\ b.cport = base_cport + y
    BY <1>3
  <1>7. base_pport + x < base_cport + y
    BY <1>1, <1>2, <1>4
  <1>8. x # y => base_pport + x # base_pport + y /\ base_cport + x # base_cport + y
    BY <1>1, <1>4
  <1> QED BY <1>5, <1>6, <1>7, <1>8
------------------------------------------------------------------------------
(* In the beginning there are no files and no processes. *)
LEMMA InitTypesPorts == DeployInit => Types /\ PortsInv
  <1> SUFFICES ASSUME DeployInit PROVE Types /\ PortsInv
    OBVIOUS
  <1>1. /\ inventory.nodes = << >> /\ inventory.clients = << >>
        /\ inventory \in [nodes : Seq(Node), clients : Seq(Node)]
    BY DEF DeployInit
  <1>2. keys \in [1 .. 2 -> Nat] /\ main \in Seq(MainLine)
    BY DEF DeployInit
  <1>3. gen \in 0 .. MaxGen /\ run \in 0 .. MaxRun
    BY DeployAssumption DEF DeployInit
  <1>4. Types
    BY <1>1, <1>2, <1>3 DEF DeployInit, Types, DeployTypeOK, Idle
  <1>5. PortsInv
    BY DEF DeployInit, PortsInv, Ported, SameFiles, OwnPorts
  <1> QED BY <1>4, <1>5

(* The steps of gen_all.sh and the operator's edits keep the types. *)
LEMMA GenerateTypes ==
  ASSUME Inv, Types,
         \/ \E l \in Lists : EditLists(l)
         \/ GenInventory \/ CutShort \/ OpenConf \/ WriteConf
         \/ \E t \in 1 .. 2 : Keygen(t)
  PROVE  Types'
  <1>1. /\ DeployTypeOK /\ (~Idle => gen >= 1) /\ (todo # {} => run >= 1)
    BY DEF Types
  <1>2. MaxGen \in Nat  BY DeployAssumption
  <1>3. ASSUME NEW l \in Lists, EditLists(l) PROVE Types'
    BY <1>1, <1>3 DEF EditLists, runVars, Types, DeployTypeOK, Idle
  <1>4. CASE GenInventory
    <2>1. /\ inventory' = [nodes |-> Nodes(lists), clients |-> Clients(lists)]
          /\ step' = "conf" /\ gen' = gen + 1 /\ gen < MaxGen
          /\ UNCHANGED << lists, keys, main, sec, todo, run, kind, procs >>
      BY <1>4 DEF GenInventory, runVars
    <2>2. lists \in Lists  BY <1>1 DEF DeployTypeOK
    <2>3. inventory' \in [nodes : Seq(Node), clients : Seq(Node)]
      BY <2>1, <2>2, GeneratedTypes
    <2>4. gen' \in 0 .. MaxGen /\ gen' >= 1
      BY <1>1, <1>2, <2>1 DEF DeployTypeOK
    <2>5. \A i \in DOMAIN sec' : sec'[i] \in (1 .. gen') \X {i}
      <3>1. 1 .. gen \subseteq 1 .. gen'
        BY <1>1, <1>2, <2>1 DEF DeployTypeOK
      <3> QED BY <1>1, <2>1, <3>1 DEF DeployTypeOK
    <2> QED BY <1>1, <2>1, <2>3, <2>4, <2>5 DEF Types, DeployTypeOK, Idle
  <1>5. CASE OpenConf
    <2>1. main' \in Seq(MainLine)  BY <1>5 DEF OpenConf
    <2> QED BY <1>1, <1>5, <2>1 DEF OpenConf, runVars, Types, DeployTypeOK, Idle
  <1>6. ASSUME NEW t \in 1 .. 2, Keygen(t) PROVE Types'
    <2>1. /\ step \in {"keygen", "tls_keygen"} /\ step' \in {"idle", "tls_keygen", "write"}
          /\ UNCHANGED << lists, inventory, gen, main, sec, todo, run, kind, procs >>
      BY <1>6 DEF Keygen, runVars
    <2>2. keys' \in [1 .. 2 -> Nat]
      <3>1. CASE UNCHANGED keys
        BY <1>1, <3>1 DEF DeployTypeOK
      <3>2. CASE \E n \in 0 .. Len(lists.replicas) : keys' = [keys EXCEPT ![t] = n]
        BY <1>1, <3>2 DEF DeployTypeOK
      <3> QED BY <1>6, <3>1, <3>2 DEF Keygen
    <2> QED BY <1>1, <2>1, <2>2 DEF Types, DeployTypeOK, Idle
  <1>7. CASE WriteConf
    <2> DEFINE n == Least(Len(lists.replicas), Least(keys[1], keys[2]))
    <2>1. /\ step = "write" /\ step' = "idle"
          /\ main' = [i \in 1 .. n |-> [addr |-> Replicas(lists.replicas)[i], key |-> << gen, i >>]]
          /\ sec' = [i \in DOMAIN sec \cup 1 .. n |-> IF i <= n THEN << gen, i >> ELSE sec[i]]
          /\ UNCHANGED << lists, inventory, gen, keys, todo, run, kind, procs >>
      BY <1>7 DEF WriteConf, runVars
    <2>2. lists \in Lists /\ keys \in [1 .. 2 -> Nat] /\ gen \in 1 .. MaxGen
      BY <1>1, <1>2, <2>1 DEF DeployTypeOK, Idle
    <2>3. lists.replicas \in Seq(Row)  BY <2>2, DeployAssumption
    <2>4. n \in Nat /\ 1 .. n \subseteq DOMAIN lists.replicas
      <3>1. Len(lists.replicas) \in Nat /\ DOMAIN lists.replicas = 1 .. Len(lists.replicas)
        BY <2>3
      <3> QED BY <2>2, <3>1 DEF Least
    <2> HIDE DEF n
    <2>5. main' \in [1 .. n -> MainLine]
      <3>1. \A i \in 1 .. n : Replicas(lists.replicas)[i] \in [ip : Address, pport : Nat, cport : Nat]
        BY <2>2, <2>4, GeneratedTypes
      <3>2. \A i \in 1 .. n : << gen, i >> \in (1 .. MaxGen) \X (Nat \ {0})
        BY <2>2, <2>4
      <3> QED BY <2>1, <3>1, <3>2 DEF MainLine
    <2>6. main' \in Seq(MainLine)
      BY <2>4, <2>5
    <2>7. \A i \in DOMAIN sec' : sec'[i] \in (1 .. gen') \X {i}
      <3> SUFFICES ASSUME NEW i \in DOMAIN sec \cup 1 .. n
                   PROVE  sec'[i] \in (1 .. gen) \X {i}
        BY <2>1
      <3>1. CASE i <= n
        BY <2>1, <2>2, <3>1
      <3>2. CASE ~(i <= n)
        <4>1. i \in DOMAIN sec  BY <2>4, <3>2
        <4> QED BY <1>1, <2>1, <3>2, <4>1 DEF DeployTypeOK
      <3> QED BY <3>1, <3>2
    <2> QED BY <1>1, <2>1, <2>6, <2>7 DEF Types, DeployTypeOK, Idle
  <1>8. CASE CutShort
    BY <1>1, <1>8 DEF CutShort, runVars, Types, DeployTypeOK, Idle
  <1> QED BY <1>3, <1>4, <1>5, <1>6, <1>7, <1>8

(* Runs keep the types. *)
LEMMA RunTypes ==
  ASSUME Inv, Types,
         \/ \E k \in Kinds : NewRun(k)
         \/ \E i \in todo : LaunchReplica(i) \/ LaunchClient(i)
         \/ \E p \in procs : Boot(p)
         \/ \E k \in 1 .. run : Stop(k)
  PROVE  Types'
  <1>1. /\ DeployTypeOK /\ (~Idle => gen >= 1) /\ (todo # {} => run >= 1)
    BY DEF Types
  <1>2. run \in 0 .. MaxRun /\ MaxRun \in Nat  BY <1>1, DeployAssumption DEF DeployTypeOK
  <1>3. ASSUME NEW k \in Kinds, NewRun(k) PROVE Types'
    <2>1. /\ run' = run + 1 /\ run < MaxRun /\ kind' = k /\ Idle
          /\ UNCHANGED << lists, inventory, step, gen, keys, main, sec, procs >>
      BY <1>3 DEF NewRun, genVars
    <2>2. run' \in 0 .. MaxRun /\ run' >= 1 /\ 1 .. run \subseteq 1 .. run'
      BY <1>2, <2>1
    <2>3. \A p \in procs : /\ p.run \in 1 .. run' /\ p.blocked \subseteq 1 .. run'
      BY <1>1, <2>2 DEF DeployTypeOK
    <2> QED BY <1>1, <2>1, <2>2, <2>3 DEF Types, DeployTypeOK, Idle, Kinds
  <1>4. ASSUME NEW i \in todo, LaunchReplica(i) \/ LaunchClient(i) PROVE Types'
    <2> DEFINE P == Process(i, IF kind = "replica" THEN sec[i] ELSE << >>)
    <2>1. /\ todo' = todo \ {i} /\ procs' \in {procs, procs \cup {P}}
          /\ UNCHANGED << lists, inventory, step, gen, keys, main, sec, run, kind >>
      BY <1>4 DEF LaunchReplica, LaunchClient, genVars
    <2>2. Rows(kind)[i].host \in Machine
      <3>1. Rows(kind) \in Seq(Node)  BY <1>1 DEF DeployTypeOK, Rows
      <3>2. i \in DOMAIN Rows(kind)  BY DEF Inv
      <3>3. Rows(kind)[i] \in Node  BY <3>1, <3>2
      <3> QED BY <3>3 DEF Node
    <2>3. /\ P.kind = kind /\ P.host = Rows(kind)[i].host /\ P.main = main /\ P.run = run
          /\ P.state = "started" /\ P.blocked = {}
      BY DEF Process
    <2> HIDE DEF P
    <2>4. run \in 1 .. run  BY <1>1, <1>2
    <2>5. \A p \in procs' : /\ p.kind \in {"replica", "client"}
                            /\ p.host \in Machine
                            /\ p.main \in Seq(MainLine)
                            /\ p.run \in 1 .. run
                            /\ p.state \in {"started", "up", "exited"}
                            /\ p.blocked \subseteq 1 .. run
      BY <1>1, <2>1, <2>2, <2>3, <2>4 DEF DeployTypeOK
    <2> QED BY <1>1, <2>1, <2>5 DEF Types, DeployTypeOK, Idle
  <1>5. ASSUME NEW p \in procs, Boot(p) PROVE Types'
    <2>1. /\ UNCHANGED << lists, inventory, step, gen, keys, main, sec, todo, run, kind >>
          /\ \E s \in {"up", "exited"}, b \in SUBSET (1 .. run) :
               procs' = (procs \ {p}) \cup {[p EXCEPT !.state = s, !.blocked = b]}
      <3>1. {q.run : q \in InTheWay(p)} \in SUBSET (1 .. run)
        BY <1>1 DEF InTheWay, DeployTypeOK
      <3>2. {} \in SUBSET (1 .. run)  OBVIOUS
      <3> QED BY <1>5, <3>1, <3>2 DEF Boot, genVars
    <2>2. PICK s \in {"up", "exited"}, b \in SUBSET (1 .. run) :
            procs' = (procs \ {p}) \cup {[p EXCEPT !.state = s, !.blocked = b]}
      BY <2>1
    <2> DEFINE u == [p EXCEPT !.state = s, !.blocked = b]
    <2>3. /\ u.kind = p.kind /\ u.host = p.host /\ u.main = p.main /\ u.run = p.run
          /\ u.state \in {s, p.state} /\ u.blocked \in {b, p.blocked}
      OBVIOUS
    <2>4. procs' = (procs \ {p}) \cup {u}  BY <2>2
    <2> HIDE DEF u
    <2>5. \A q \in procs' : /\ q.kind \in {"replica", "client"}
                            /\ q.host \in Machine
                            /\ q.main \in Seq(MainLine)
                            /\ q.run \in 1 .. run
                            /\ q.state \in {"started", "up", "exited"}
                            /\ q.blocked \subseteq 1 .. run
      BY <1>1, <2>2, <2>3, <2>4 DEF DeployTypeOK
    <2> QED BY <1>1, <2>1, <2>5 DEF Types, DeployTypeOK, Idle
  <1>6. ASSUME NEW k \in 1 .. run, Stop(k) PROVE Types'
    BY <1>1, <1>6 DEF Stop, genVars, Types, DeployTypeOK, Idle
  <1> QED BY <1>3, <1>4, <1>5, <1>6
------------------------------------------------------------------------------
(* Processes and files that stay as they are keep the invariant of ports,  *)
(* and so does taking processes away.                                      *)
LEMMA SamePorts ==
  ASSUME PortsInv, procs' \subseteq procs, main' = main, run' = run,
         todo' = {} \/ todo # {}
  PROVE  PortsInv'
  <1>1. \A p : TwoAddresses(p)' <=> TwoAddresses(p)
    BY DEF TwoAddresses
  <1>2. OwnPorts'
    BY <1>1 DEF PortsInv, OwnPorts
  <1> QED BY <1>2 DEF PortsInv, Ported, SameFiles, AtHome

(* gen_all.sh keeps it: it runs only while no process is being started,    *)
(* and gives no two replicas of a machine the same ports.                  *)
LEMMA GeneratePorts ==
  ASSUME Inv, PortsInv,
         \/ \E l \in Lists : EditLists(l)
         \/ GenInventory \/ CutShort \/ OpenConf \/ WriteConf
         \/ \E t \in 1 .. 2 : Keygen(t)
  PROVE  PortsInv'
  <1>1. CASE \/ \E l \in Lists : EditLists(l)
             \/ GenInventory \/ CutShort \/ \E t \in 1 .. 2 : Keygen(t)
    BY <1>1, SamePorts DEF EditLists, GenInventory, CutShort, Keygen, runVars
  <1>2. ASSUME OpenConf \/ WriteConf, Ported(main')
        PROVE  PortsInv'
    <2>1. /\ todo = {} /\ UNCHANGED << todo, run, kind, procs >>
      BY <1>2 DEF Inv, Idle, OpenConf, WriteConf, runVars
    <2>2. \A p : TwoAddresses(p)' <=> TwoAddresses(p)
      BY DEF TwoAddresses
    <2>3. OwnPorts'
      BY <2>1, <2>2 DEF PortsInv, OwnPorts
    <2> QED BY <1>2, <2>1, <2>3 DEF PortsInv, Ported, SameFiles, AtHome
  <1>3. CASE OpenConf
    <2>1. Ported(main')  BY <1>3 DEF OpenConf, Ported
    <2> QED BY <1>2, <1>3, <2>1
  <1>4. CASE WriteConf
    <2> DEFINE n == Least(Len(lists.replicas), Least(keys[1], keys[2]))
    <2>1. /\ main' = [i \in 1 .. n |-> [addr |-> Replicas(lists.replicas)[i], key |-> << gen, i >>]]
          /\ lists \in Lists /\ keys \in [1 .. 2 -> Nat]
      BY <1>4 DEF WriteConf, Inv
    <2>2. lists.replicas \in Seq(Row)  BY <2>1, DeployAssumption
    <2>3. n \in Nat /\ 1 .. n \subseteq DOMAIN lists.replicas
      <3>1. Len(lists.replicas) \in Nat /\ DOMAIN lists.replicas = 1 .. Len(lists.replicas)
        BY <2>2
      <3> QED BY <2>1, <3>1 DEF Least
    <2> HIDE DEF n
    <2>4. DOMAIN main' = 1 .. n /\ \A i \in 1 .. n : main'[i].addr = Replicas(lists.replicas)[i]
      BY <2>1
    <2>5. ASSUME NEW i \in 1 .. n, NEW j \in 1 .. n
          PROVE  /\ main'[i].addr.pport < main'[j].addr.cport
                 /\ i # j /\ main'[i].addr.ip = main'[j].addr.ip =>
                      /\ main'[i].addr.pport # main'[j].addr.pport
                      /\ main'[i].addr.cport # main'[j].addr.cport
      <3>1. i \in DOMAIN lists.replicas /\ j \in DOMAIN lists.replicas  BY <2>3
      <3> QED BY <2>1, <2>4, <3>1, ReplicasPorted
    <2>6. Ported(main')
      BY <2>4, <2>5 DEF Ported
    <2> QED BY <1>2, <1>4, <2>6
  <1> QED BY <1>1, <1>3, <1>4

(* A run begins with no processes of its own, and a process that is        *)
(* launched has the files of the others and a row of its own.              *)
LEMMA LaunchPorts ==
  ASSUME Inv, PortsInv,
         \/ \E k \in Kinds : NewRun(k)
         \/ \E i \in todo : LaunchReplica(i) \/ LaunchClient(i)
  PROVE  PortsInv'
  <1>1. \A p : TwoAddresses(p)' <=> TwoAddresses(p)
    BY DEF TwoAddresses
  <1>2. ASSUME NEW k \in Kinds, NewRun(k) PROVE PortsInv'
    <2>1. run' = run + 1 /\ procs' = procs /\ main' = main
      BY <1>2 DEF NewRun, genVars
    <2>2. \A p \in procs : p.run # run'
      BY <2>1 DEF Inv
    <2>3. OwnPorts'
      BY <1>1, <2>1 DEF PortsInv, OwnPorts
    <2> QED BY <2>1, <2>2, <2>3 DEF PortsInv, Ported, SameFiles, AtHome
  <1>3. ASSUME NEW i \in todo, LaunchReplica(i) \/ LaunchClient(i) PROVE PortsInv'
    <2> DEFINE P == Process(i, IF kind = "replica" THEN sec[i] ELSE << >>)
    <2>1. CASE procs' = procs
      <3>1. main' = main /\ run' = run  BY <1>3 DEF LaunchReplica, LaunchClient, genVars
      <3> QED BY <1>3, <2>1, <3>1, SamePorts
    <2>2. CASE procs' = procs \cup {P}
      <3>1. main' = main /\ run' = run /\ procs' = procs \cup {P}
        BY <1>3, <2>2 DEF LaunchReplica, LaunchClient, genVars
      <3>2. P.main = main /\ P.run = run /\ P.idx = i /\ P.state = "started" /\ P.blocked = {}
        BY DEF Process
      <3> HIDE DEF P
      <3>3. ASSUME NEW q \in procs, q.run = run
            PROVE  q.main = main /\ q.idx # i
        BY <1>3, <3>3 DEF Inv, PortsInv, SameFiles, Started
      <3>4. SameFiles'
        <4>1. \A p, q \in procs' : p.run = q.run => p.main = q.main /\ (p.idx = q.idx => p = q)
          BY <3>1, <3>2, <3>3 DEF PortsInv, SameFiles
        <4>2. \A p \in procs' : p.run = run' => p.main = main'
          BY <3>1, <3>2, <3>3
        <4> QED BY <4>1, <4>2 DEF SameFiles
      <3>5. OwnPorts'
        BY <1>1, <3>1, <3>2 DEF PortsInv, OwnPorts
      <3>6. Ported(main)' /\ \A p \in procs' : Ported(p.main)'
        BY <3>1, <3>2 DEF PortsInv, Ported
      <3>7. \A p \in procs' : p.kind = "replica" /\ p.state = "up" => AtHome(p)'
        BY <3>1, <3>2 DEF PortsInv, AtHome
      <3>8. \A p \in procs' : Ported(p.main')
        BY <3>6 DEF Ported
      <3> QED BY <3>4, <3>5, <3>6, <3>7, <3>8 DEF PortsInv
    <2>3. procs' = procs \/ procs' = procs \cup {P}
      BY <1>3 DEF LaunchReplica, LaunchClient
    <2> QED BY <2>1, <2>2, <2>3
  <1> QED BY <1>2, <1>3

(* Another replica of the same run has a line of its own, which names the  *)
(* same machine: it holds none of the ports of p unless by another address *)
(* of that machine.                                                        *)
LEMMA SameRunPorts ==
  ASSUME Inv, Types, PortsInv,
         NEW p \in procs, p.state = "started", AtHome(p),
         NEW q \in InTheWay(p), q.run = p.run
  PROVE  TwoAddresses(p)
  <1> DEFINE i == p.idx
             j == q.idx
             a == p.main[i].addr
             b == p.main[j].addr
  <1>1. q \in procs /\ q.kind = "replica" /\ q.state = "up" /\ Clash(p, q)
    BY DEF InTheWay
  <1>2. q.main = p.main /\ j # i
    BY <1>1 DEF PortsInv, SameFiles
  <1>3. j \in DOMAIN p.main
    BY <1>1, <1>2 DEF PortsInv, AtHome
  <1>4. Owner[a.ip] = p.host /\ Owner[b.ip] = p.host /\ i \in DOMAIN p.main
    BY <1>1, <1>2 DEF PortsInv, AtHome, Clash
  <1>5. CASE a.ip # b.ip
    BY <1>3, <1>4, <1>5 DEF TwoAddresses
  <1>6. CASE a.ip = b.ip
    <2>1. /\ a.pport # b.pport /\ a.cport # b.cport
          /\ a.pport # b.cport /\ a.cport # b.pport
      <3>1. Ported(p.main)  BY DEF PortsInv
      <3>2. /\ a.pport \in Nat /\ a.cport \in Nat /\ b.pport \in Nat /\ b.cport \in Nat
        <4>1. p.main \in Seq(MainLine)  BY DEF Types, DeployTypeOK, Idle
        <4>2. p.main[i] \in MainLine /\ p.main[j] \in MainLine  BY <1>3, <1>4, <4>1
        <4> QED BY <4>2 DEF MainLine
      <3> QED BY <1>2, <1>3, <1>4, <1>6, <3>1, <3>2 DEF Ported
    <2>2. \E x \in Ports(p), y \in Ports(q) : x[2] = y[2]
      BY <1>1 DEF Clash
    <2>3. Ports(p) = {<< a.ip, a.pport >>, << "any", a.cport >>}
      BY DEF Ports
    <2>4. Ports(q) = {<< b.ip, b.pport >>, << "any", b.cport >>}
      BY <1>2 DEF Ports
    <2> HIDE DEF a, b
    <2> QED BY <2>1, <2>2, <2>3, <2>4
  <1> QED BY <1>5, <1>6

(* A process that boots is up only with a line of its own, and is only in  *)
(* the way of itself where it was before.                                  *)
LEMMA BootPorts ==
  ASSUME Inv, Types, PortsInv, NEW p \in procs, Boot(p)
  PROVE  PortsInv'
  <1> DEFINE Becomes(s, b) == procs' = (procs \ {p}) \cup {[p EXCEPT !.state = s, !.blocked = b]}
             others == {q.run : q \in InTheWay(p)}
  <1>0. \/ Becomes("exited", {})
        \/ p.kind = "client" /\ Becomes("up", {})
        \/ /\ p.kind = "replica" /\ AtHome(p)
           /\ Becomes(IF others = {} THEN "up" ELSE "exited", others)
    BY DEF Boot, AtHome
  <1>1. /\ UNCHANGED << lists, inventory, step, gen, keys, main, sec, todo, run, kind >>
        /\ p.state = "started"
    BY DEF Boot, genVars
  <1> HIDE DEF Becomes, others
  <1>2. PICK s, b :
          /\ s \in {"up", "exited"}
          /\ Becomes(s, b)
          /\ p.kind = "replica" /\ s = "up" => AtHome(p)
          /\ b = {} \/ (AtHome(p) /\ b = others)
    BY <1>0
  <1> USE DEF Becomes, others
  <1> DEFINE u == [p EXCEPT !.state = s, !.blocked = b]
  <1>3. /\ u.kind = p.kind /\ u.idx = p.idx /\ u.host = p.host /\ u.run = p.run
        /\ u.main = p.main /\ u.state \in {s, p.state} /\ u.blocked \in {b, p.blocked}
    OBVIOUS
  <1>4. procs' = (procs \ {p}) \cup {u}
    BY <1>2
  <1> HIDE DEF u
  <1>5. p.run \in b => TwoAddresses(p)
    BY <1>1, <1>2, SameRunPorts
  <1>6. OwnPorts'
    <2>1. \A q : TwoAddresses(q)' <=> TwoAddresses(q)
      BY DEF TwoAddresses
    <2>2. TwoAddresses(p) => TwoAddresses(u)
      BY <1>3 DEF TwoAddresses
    <2>3. u.run \in u.blocked => TwoAddresses(u)
      BY <1>3, <1>5, <2>2 DEF PortsInv, OwnPorts
    <2> QED BY <1>4, <2>1, <2>3 DEF PortsInv, OwnPorts
  <1>7. SameFiles'
    <2>1. \A x, y \in procs' : x.run = y.run => x.main = y.main /\ (x.idx = y.idx => x = y)
      BY <1>3, <1>4 DEF PortsInv, SameFiles
    <2>2. todo' # {} => \A x \in procs' : x.run = run' => x.main = main'
      BY <1>1, <1>3, <1>4 DEF PortsInv, SameFiles
    <2> QED BY <2>1, <2>2 DEF SameFiles
  <1>8. \A x \in procs' : x.kind = "replica" /\ x.state = "up" => AtHome(x)
    <2>1. AtHome(p) => AtHome(u)
      BY <1>3 DEF AtHome
    <2>2. u.kind = "replica" /\ u.state = "up" => AtHome(u)
      BY <1>1, <1>2, <1>3, <2>1
    <2> QED BY <1>4, <2>2 DEF PortsInv
  <1>9. Ported(main') /\ \A x \in procs' : Ported(x.main)
    BY <1>1, <1>3, <1>4 DEF PortsInv
  <1> QED BY <1>6, <1>7, <1>8, <1>9 DEF PortsInv, Ported
------------------------------------------------------------------------------
(* The types and the ports in every reachable state. *)
THEOREM TypesPortsHold == DeploySpec => [](Types /\ PortsInv)
  <1>1. Inv /\ Types /\ PortsInv /\ [DeployNext]_deployVars => (Types /\ PortsInv)'
    <2> SUFFICES ASSUME Inv, Types, PortsInv, [DeployNext]_deployVars
                 PROVE  (Types /\ PortsInv)'
      OBVIOUS
    <2>1. CASE UNCHANGED deployVars
      <3>1. Types'  BY <2>1 DEF deployVars, Types, DeployTypeOK, Idle
      <3> QED BY <2>1, <3>1, SamePorts DEF deployVars
    <2>2. CASE \/ \E l \in Lists : EditLists(l)
               \/ GenInventory \/ CutShort \/ OpenConf \/ WriteConf
               \/ \E t \in 1 .. 2 : Keygen(t)
      BY <2>2, GenerateTypes, GeneratePorts
    <2>3. CASE \/ \E k \in Kinds : NewRun(k)
               \/ \E i \in todo : LaunchReplica(i) \/ LaunchClient(i)
      BY <2>3, RunTypes, LaunchPorts
    <2>4. ASSUME NEW p \in procs, Boot(p) PROVE (Types /\ PortsInv)'
      BY <2>4, RunTypes, BootPorts
    <2>5. ASSUME NEW k \in 1 .. run, Stop(k) PROVE (Types /\ PortsInv)'
      <3>1. procs' \subseteq procs /\ main' = main /\ run' = run /\ todo' = {}
        BY <2>5 DEF Stop, genVars
      <3> QED BY <2>5, <3>1, RunTypes, SamePorts
    <2> QED BY <2>1, <2>2, <2>3, <2>4, <2>5 DEF DeployNext, Kinds
  <1> QED BY <1>1, InitTypesPorts, DeployInv, PTL DEF DeploySpec

(* Types: the files that the scripts write and the processes that they     *)
(* start are made of the machines and addresses of the lists.              *)
THEOREM DeployTypes == DeploySpec => []DeployTypeOK
  <1>1. Types => DeployTypeOK  BY DEF Types
  <1> QED BY <1>1, TypesPortsHold, PTL

(* For any lists, also with a machine that is listed many times, no        *)
(* replica finds its ports taken by a replica of its own run, unless their *)
(* machine has two addresses: port_count in gen_conf.py and the hosts of   *)
(* gen_inventory.py count the same rows.                                   *)
THEOREM PortsAreOwn == DeploySpec => []OwnPorts
  <1>1. PortsInv => OwnPorts  BY DEF PortsInv
  <1> QED BY <1>1, TypesPortsHold, PTL
==============================================================================
