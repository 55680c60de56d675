----------------------------- MODULE Deployment ------------------------------
(***************************************************************************)
(* The deployment of replicas and clients (scripts/deploy, gen_conf.py):   *)
(* two lists of machines become an inventory and configuration files, in   *)
(* the steps of gen_all.sh, and run.sh and run_cli.sh start a process for  *)
(* each row of the inventory with the files it finds then.                 *)
(*                                                                         *)
(* gen_all.sh may be interrupted between its programs, key generators may  *)
(* be missing or fail half way, files of earlier generations stay, runs    *)
(* overlap.  The operator does not generate while processes are being      *)
(* started.  Rows are well-formed.                                         *)
(***************************************************************************)
EXTENDS Integers, Sequences, FiniteSets

CONSTANTS Machine,              \* by external address
          Address, Owner,       \* inter-replica addresses, and whose they are
          Lists,                \* what the operator may write into the lists
          base_pport, base_cport,
          MaxGen, MaxRun        \* bounds: generations, runs

VARIABLES
  lists,        \* replicas.txt and clients.txt
  inventory,    \* nodes.ini: the host and host_idx of each node and client
  step,         \* where gen_all.sh is
  gen,          \* how many times it was started
  keys,         \* keys[t]: the lines that key generator t has printed
  main,         \* the replica lines of hotstuff.gen.conf
  sec,          \* sec[i]: the key in hotstuff.gen-sec{i}.conf, for those there are
  todo,         \* the rows that run.sh or run_cli.sh has not come to yet
  run, kind,    \* how many runs there were, and the last one's processes
  procs         \* the processes of all runs

genVars == << lists, inventory, step, gen, keys, main, sec >>
runVars == << todo, run, kind, procs >>
deployVars == << lists, inventory, step, gen, keys, main, sec, todo, run, kind, procs >>

Row == [pub : Machine, priv : Address]

ASSUME DeployAssumption ==
  /\ Owner \in [Address -> Machine]
  /\ \A l \in Lists : /\ l.replicas \in Seq(Row) /\ l.clients \in Seq(Machine)
                      /\ \A i \in DOMAIN l.replicas :
                           Owner[l.replicas[i].priv] = l.replicas[i].pub
  /\ base_pport \in Nat
  /\ base_cport \in Nat
  /\ \A l \in Lists : base_pport + Len(l.replicas) <= base_cport
  /\ MaxGen \in Nat /\ MaxRun \in Nat

Least(a, b) == IF a <= b THEN a ELSE b

(* How many rows before the i-th have the same value in a column. *)
Earlier(column, i) == Cardinality({j \in 1 .. i - 1 : column[j] = column[i]})

Pub(rows) == [i \in DOMAIN rows |-> rows[i].pub]
Priv(rows) == [i \in DOMAIN rows |-> rows[i].priv]
------------------------------------------------------------------------------
(* Wrong on purpose: counted by the inter-replica address. *)
NodesByPriv(l) ==
  [i \in DOMAIN l.replicas |->
     [host |-> l.replicas[i].pub, host_idx |-> Earlier(Priv(l.replicas), i)]]

(* [nodes] of gen_inventory.py *)
Nodes(l) ==
  [i \in DOMAIN l.replicas |->
     [host |-> l.replicas[i].pub, host_idx |-> Earlier(Pub(l.replicas), i)]]

(* [clients], which are counted on from the last replica's machine; with   *)
(* no replica its name is undefined.                                       *)
Clients(l) ==
  LET pubs == Pub(l.replicas)
      n == Len(pubs)
  IN  IF n = 0 THEN << >>
      ELSE [i \in DOMAIN l.clients |->
              [host |-> l.clients[i], host_idx |-> Earlier(pubs, n) + i]]

(* Wrong on purpose: no count of ports. *)
ReplicasSamePort(rows) ==
  [i \in DOMAIN rows |->
     [ip |-> rows[i].priv, pport |-> base_pport, cport |-> base_cport]]

(* replicas of gen_conf.py, with port_count *)
Replicas(rows) ==
  [i \in DOMAIN rows |->
     [ip |-> rows[i].priv,
      pport |-> base_pport + Earlier(Priv(rows), i),
      cport |-> base_cport + Earlier(Priv(rows), i)]]
------------------------------------------------------------------------------
DeployInit ==
  /\ lists \in Lists
  /\ inventory = [nodes |-> << >>, clients |-> << >>]
  /\ step = "idle" /\ gen = 0 /\ keys = << 0, 0 >>
  /\ main = << >> /\ sec = << >>
  /\ todo = {} /\ run = 0 /\ kind = "replica" /\ procs = {}

(* gen_all.sh is not running.  "cut": its last call ended with a new       *)
(* nodes.ini, before gen_conf.py had opened hotstuff.gen.conf.             *)
Idle == step \in {"idle", "cut"}

(* The operator edits the lists. *)
EditLists(l) ==
  /\ Idle /\ todo = {}
  /\ gen < MaxGen
  /\ lists' = l
  /\ UNCHANGED << inventory, step, gen, keys, main, sec, runVars >>

(* gen_inventory.py, the first command of gen_all.sh *)
GenInventory ==
  /\ Idle /\ todo = {}
  /\ gen < MaxGen
  /\ gen' = gen + 1
  /\ inventory' = [nodes |-> Nodes(lists), clients |-> Clients(lists)]
  /\ step' = "conf"
  /\ UNCHANGED << lists, keys, main, sec, runVars >>

(* gen_all.sh is interrupted after gen_inventory.py, or gen_conf.py fails  *)
(* before it opens its files: nothing makes the one depend on the other.   *)
CutShort ==
  /\ step = "conf"
  /\ step' = "cut"
  /\ UNCHANGED << lists, inventory, gen, keys, main, sec, runVars >>

(* Wrong on purpose: the file is opened when there is something to write. *)
OpenConfLate ==
  /\ step = "conf"
  /\ step' = "keygen"
  /\ UNCHANGED << lists, inventory, gen, keys, main, sec, runVars >>

(* gen_conf.py opens its files, which empties them. *)
OpenConf ==
  /\ step = "conf"
  /\ main' = << >>
  /\ step' = "keygen"
  /\ UNCHANGED << lists, inventory, gen, keys, sec, runVars >>

(* The two key generators are run.  A program that is not there raises an  *)
(* exception; one that fails ends its output, which is all that is read.   *)
Keygen(t) ==
  /\ step = << "keygen", "tls_keygen" >>[t]
  /\ \/ /\ step' = "idle"
        /\ UNCHANGED keys
     \/ /\ \E n \in 0 .. Len(lists.replicas) : keys' = [keys EXCEPT ![t] = n]
        /\ step' = << "tls_keygen", "write" >>[t]
  /\ UNCHANGED << lists, inventory, gen, main, sec, runVars >>

(* Wrong on purpose: the files are numbered from one. *)
WriteConfFromOne ==
  LET n == Least(Len(lists.replicas), Least(keys[1], keys[2]))
      Key(i) == << gen, i >>
  IN  /\ step = "write"
      /\ main' = [i \in 1 .. n |-> [addr |-> Replicas(lists.replicas)[i], key |-> Key(i)]]
      /\ sec' = [i \in DOMAIN sec \cup 2 .. n + 1 |->
                   IF i \in 2 .. n + 1 THEN Key(i - 1) ELSE sec[i]]
      /\ step' = "idle"
      /\ UNCHANGED << lists, inventory, gen, keys, runVars >>

(* The loop that writes the replica lines and the files of the replicas:   *)
(* zip ends with the shortest of its lists.                                *)
WriteConf ==
  LET n == Least(Len(lists.replicas), Least(keys[1], keys[2]))
      Key(i) == << gen, i >>
  IN  /\ step = "write"
      /\ main' = [i \in 1 .. n |-> [addr |-> Replicas(lists.replicas)[i], key |-> Key(i)]]
      /\ sec' = [i \in DOMAIN sec \cup 1 .. n |-> IF i <= n THEN Key(i) ELSE sec[i]]
      /\ step' = "idle"
      /\ UNCHANGED << lists, inventory, gen, keys, runVars >>
------------------------------------------------------------------------------
(* The rows of nodes.ini that run.sh or run_cli.sh starts. *)
Rows(k) == IF k = "replica" THEN inventory.nodes ELSE inventory.clients

(* run.sh new, or run_cli.sh new *)
NewRun(k) ==
  /\ Idle /\ todo = {}
  /\ run < MaxRun
  /\ run' = run + 1
  /\ kind' = k
  /\ todo' = DOMAIN Rows(k)
  /\ UNCHANGED << genVars, procs >>

(* The process of row i, with its copies of the files, in the directory of *)
(* the run and the host_idx.                                               *)
Process(i, key) ==
  LET row == Rows(kind)[i]
  IN  [kind |-> kind, idx |-> i, host |-> row.host,
       log_dir |-> << row.host, run, row.host_idx >>, run |-> run,
       main |-> main, key |-> key, cut |-> step = "cut",
       state |-> "started", blocked |-> {}]

(* run_module of hotstuff_app.py, called by run.yml for the next row, in   *)
(* any order.  Nothing is started for a node whose own file is not there   *)
(* to be copied, or when Popen or the opening of the logs fails.           *)
LaunchReplica(i) ==
  /\ kind = "replica" /\ i \in todo
  /\ todo' = todo \ {i}
  /\ \/ UNCHANGED procs
     \/ i \in DOMAIN sec /\ procs' = procs \cup {Process(i, sec[i])}
  /\ UNCHANGED << genVars, run, kind >>

(* run_module of hotstuff_cli.py, called by run_cli.yml, which copies only *)
(* the common file.                                                        *)
LaunchClient(i) ==
  /\ kind = "client" /\ i \in todo
  /\ todo' = todo \ {i}
  /\ procs' \in {procs, procs \cup {Process(i, << >>)}}
  /\ UNCHANGED << genVars, run, kind >>

(* The ports of a replica: one on its address, one for clients on all.     *)
Ports(p) == LET addr == p.main[p.idx].addr
            IN  {<< addr.ip, addr.pport >>, << "any", addr.cport >>}
Clash(p, q) ==
  /\ p.host = q.host
  /\ \E x \in Ports(p), y \in Ports(q) :
       x[2] = y[2] /\ (x[1] = y[1] \/ "any" \in {x[1], y[1]})

InTheWay(p) == {q \in procs : q.kind = "replica" /\ q.state = "up" /\ Clash(p, q)}

(* A started process reads its files, takes its ports, and is up or exits, *)
(* as it does when the address of its line is not one of its machine.      *)
(* A client takes the second replica for its own (client_idx).             *)
Boot(p) ==
  LET Becomes(s, b) ==
        procs' = (procs \ {p}) \cup {[p EXCEPT !.state = s, !.blocked = b]}
  IN  /\ p \in procs /\ p.state = "started"
      /\ \/ /\ (IF p.kind = "replica" THEN p.idx ELSE 2) \notin DOMAIN p.main
            /\ Becomes("exited", {})
         \/ /\ p.kind = "client" /\ 2 \in DOMAIN p.main
            /\ Becomes("up", {})
         \/ /\ p.kind = "replica" /\ p.idx \in DOMAIN p.main
            /\ Owner[p.main[p.idx].addr.ip] # p.host
            /\ Becomes("exited", {})
         \/ /\ p.kind = "replica" /\ p.idx \in DOMAIN p.main
            /\ Owner[p.main[p.idx].addr.ip] = p.host
            /\ LET others == {q.run : q \in InTheWay(p)} IN
               Becomes(IF others = {} THEN "up" ELSE "exited", others)
      /\ UNCHANGED << genVars, todo, run, kind >>

(* run.sh stop: the processes of a run are killed. *)
Stop(k) ==
  /\ todo = {}
  /\ procs' = {p \in procs : p.run # k}
  /\ UNCHANGED << genVars, todo, run, kind >>

DeployNext == \/ \E l \in Lists : EditLists(l)
              \/ GenInventory \/ CutShort \/ OpenConf \/ WriteConf
              \/ \E t \in 1 .. 2 : Keygen(t)
              \/ \E k \in {"replica", "client"} : NewRun(k)
              \/ \E i \in todo : LaunchReplica(i) \/ LaunchClient(i)
              \/ \E p \in procs : Boot(p)
              \/ \E k \in 1 .. run : Stop(k)

DeploySpec == DeployInit /\ [][DeployNext]_deployVars
------------------------------------------------------------------------------
Node == [host : Machine, host_idx : Nat]
MainLine == [addr : [ip : Address, pport : Nat, cport : Nat],
             key : (1 .. MaxGen) \X (Nat \ {0})]

(* Types of the files and of the processes. *)
DeployTypeOK ==
  /\ lists \in Lists
  /\ inventory \in [nodes : Seq(Node), clients : Seq(Node)]
  /\ step \in {"idle", "cut", "conf", "keygen", "tls_keygen", "write"}
  /\ gen \in 0 .. MaxGen
  /\ keys \in [1 .. 2 -> Nat]
  /\ main \in Seq(MainLine)
  /\ \A i \in DOMAIN sec : sec[i] \in (1 .. gen) \X {i}
  /\ run \in 0 .. MaxRun /\ kind \in {"replica", "client"}
  /\ \A p \in procs : /\ p.kind \in {"replica", "client"}
                      /\ p.host \in Machine
                      /\ p.main \in Seq(MainLine)
                      /\ p.run \in 1 .. run
                      /\ p.state \in {"started", "up", "exited"}
                      /\ p.blocked \subseteq 1 .. run

(* The inventory and the files of the replicas are written one after the   *)
(* other, and generations end half way and leave files behind.  Still, a   *)
(* replica that finds its line in the configuration has the key to the     *)
(* public key there, and runs on the machine that the line names to the    *)
(* others, unless the last gen_all.sh ended after it had written the       *)
(* inventory and before gen_conf.py had emptied the configuration.         *)
NamedWhereRun ==
  \A p \in procs : p.kind = "replica" /\ p.idx \in DOMAIN p.main =>
    /\ p.main[p.idx].key = p.key
    /\ p.cut \/ Owner[p.main[p.idx].addr.ip] = p.host

(* A machine that is listed under two inter-replica addresses. *)
TwoAddresses(p) ==
  \E i, j \in DOMAIN p.main : LET a == p.main[i].addr.ip
                                  b == p.main[j].addr.ip
                              IN  a # b /\ Owner[a] = p.host /\ Owner[b] = p.host

(* "If the same IP appears several times, it runs multiple replica/client  *)
(* processes at the same time" (gen_all.sh): a replica finds its ports     *)
(* taken only by an earlier run that was not stopped, never by a replica   *)
(* of its own run, unless their machine has two addresses.                 *)
OwnPorts == \A p \in procs : p.run \in p.blocked => TwoAddresses(p)

(* No two processes, replicas or clients, write their logs to the same     *)
(* directory, where the second one would truncate those of the first.      *)
OwnLogs == \A p, q \in procs : p.log_dir = q.log_dir => p = q
==============================================================================
