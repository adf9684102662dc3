-------------------------------- MODULE Bastion --------------------------------
(***************************************************************************)
(* The bastion operator (pkg/bastion-controller): one worker that keeps    *)
(* the authorized_keys file of the SSH bastion equal to the public keys of *)
(* the Tenants. tenants maps each existing Tenant to its list of keys and  *)
(* cache is what the operator's cache shows. file is the sequence of       *)
(* entries of authorized_keys (a missing file is read as an empty one); it *)
(* is shared with sshd in a volume that outlives the operator's container. *)
(* A key that is not of the form "algorithm key [comment]" is BadKey. The  *)
(* id of an entry cut short by a failed write is Nobody's.                 *)
(*                                                                         *)
(* Two variables only record what has happened: torn, that a write failed  *)
(* since the operator started, and missed, the Tenants whose deletion the  *)
(* operator did not get to write before it stopped or a write failed.      *)
(*                                                                         *)
(* Bounds: MaxOps changes of Tenants, MaxFaults failures and crashes, the  *)
(* lists of keys in KeyLists.                                              *)
(***************************************************************************)
EXTENDS Naturals, SequencesExt

CONSTANTS Tenants, Absent, Nobody, BadKey, KeyLists, MaxOps, MaxFaults

(* A list of keys is a sequence, and neither the mark of a deleted Tenant  *)
(* nor the id of a cut entry is mistaken for one.                          *)
ASSUME BastionAssumption ==
  /\ MaxOps \in Nat /\ MaxFaults \in Nat
  /\ KeyLists \subseteq Seq(UNION {Range(l) : l \in KeyLists})
  /\ Absent \notin KeyLists /\ Nobody \notin Tenants

VARIABLES tenants, cache, file, queue, proc, torn, missed, faults, ops

ghosts == <<torn, missed>>
vars == <<tenants, cache, file, queue, proc, ghosts, faults, ops>>

TenantKeys == KeyLists \cup {Absent}
Keys == (UNION {Range(l) : l \in KeyLists}) \ {BadKey}

Entry == [key : Keys, id : Tenants \cup {Nobody}]

Idle == [pc |-> "idle", t |-> Nobody, spec |-> Absent, keys |-> <<>>]

Init ==
  /\ tenants = [t \in Tenants |-> Absent] /\ cache = tenants
  /\ file = <<>> /\ queue = {} /\ proc = Idle /\ torn = FALSE /\ missed = {}
  /\ faults = MaxFaults /\ ops = MaxOps

Fault == faults > 0 /\ faults' = faults - 1

-----------------------------------------------------------------------------
(* The helpers on entries *)

(* removeKey: the last entry takes the place of the one removed. *)
removeKey(s, i) ==
  IF i > Len(s) THEN s
  ELSE [j \in 1 .. Len(s) - 1 |-> IF j = i THEN s[Len(s)] ELSE s[j]]

IndexesOf(keys, t) == {i \in 1 .. Len(keys) : keys[i].id = t}

decomposeAndPurgeEntries_forward(keys, t) ==
  LET rest[i \in 0 .. Len(keys)] ==
        IF i = 0 THEN keys
        ELSE IF i \in IndexesOf(keys, t) THEN removeKey(rest[i - 1], i) ELSE rest[i - 1]
  IN  rest[Len(keys)]

(* The entries of t are removed from the last to the first: rest[n] is     *)
(* what is left once the n last indexes have been looked at.               *)
decomposeAndPurgeEntries(keys, t) ==
  LET index(n) == Len(keys) + 1 - n
      rest[n \in 0 .. Len(keys)] ==
        IF n = 0 THEN keys
        ELSE IF index(n) \in IndexesOf(keys, t) THEN removeKey(rest[n - 1], index(n))
        ELSE rest[n - 1]
  IN  rest[Len(keys)]

(* Create and Compose, of a key that is well formed: the entry of t. *)
Create(key, t) == [key |-> key, id |-> t]

(* The keys of the Tenant are appended, a malformed one is skipped. *)
composeAndMarkEntries(keys, tenantKeys, t) ==
  LET marked[n \in 0 .. Len(tenantKeys)] ==
        IF n = 0 THEN keys
        ELSE IF tenantKeys[n] = BadKey THEN marked[n - 1]
        ELSE Append(marked[n - 1], Create(tenantKeys[n], t))
  IN  marked[Len(tenantKeys)]

(* What a write that fails part way leaves of the entries. *)
Torn(keys) ==
  {SubSeq(keys, 1, n) : n \in 0 .. Len(keys)} \cup
  {Append(SubSeq(keys, 1, n), [key |-> keys[n + 1].key, id |-> Nobody]) : n \in 0 .. Len(keys) - 1}

-----------------------------------------------------------------------------
(* Tenants are created, edited and deleted; the watch queues every change. *)

Edit == ops > 0 /\ ops' = ops - 1

UserSet(t) ==
  /\ Edit /\ \E l \in KeyLists \ {tenants[t]} : tenants' = [tenants EXCEPT ![t] = l]
  /\ UNCHANGED <<cache, file, queue, proc, ghosts, faults>>

UserDelete(t) ==
  /\ tenants[t] # Absent /\ Edit /\ tenants' = [tenants EXCEPT ![t] = Absent]
  /\ UNCHANGED <<cache, file, queue, proc, ghosts, faults>>

Watch(t) ==
  /\ cache[t] # tenants[t]
  /\ cache' = [cache EXCEPT ![t] = tenants[t]] /\ queue' = queue \cup {t}
  /\ UNCHANGED <<tenants, file, proc, ghosts, faults, ops>>

(* The operator starts again: it lists and queues the Tenants that exist. *)
Crash ==
  /\ Fault /\ proc' = Idle /\ cache' = tenants
  /\ queue' = {t \in Tenants : tenants[t] # Absent} /\ torn' = FALSE
  /\ missed' = missed \cup
       {t \in Tenants : tenants[t] = Absent /\ (cache[t] # Absent \/ t \in queue \/ proc.t = t)}
  /\ UNCHANGED <<tenants, file, ops>>

-----------------------------------------------------------------------------
(* Reconcile *)

Get(t) ==
  /\ proc = Idle /\ t \in queue
  /\ \/ /\ proc' = [pc |-> "read", t |-> t, spec |-> cache[t], keys |-> <<>>]
        /\ queue' = queue \ {t} /\ UNCHANGED faults
     \/ Fault /\ UNCHANGED <<proc, queue>>
  /\ UNCHANGED <<tenants, cache, file, ghosts, ops>>

ReadFile_logOnly ==
  /\ proc.pc = "read"
  /\ \/ LET rest == decomposeAndPurgeEntries(file, proc.t) IN
        /\ proc' = [proc EXCEPT !.pc = "create",
                     !.keys = IF proc.spec = Absent THEN rest
                              ELSE composeAndMarkEntries(rest, proc.spec, proc.t)]
        /\ UNCHANGED <<queue, faults>>
     \/ Fault /\ proc' = Idle /\ UNCHANGED queue
  /\ UNCHANGED <<tenants, cache, file, ghosts, ops>>

ReadFile ==
  /\ proc.pc = "read"
  /\ \/ LET rest == decomposeAndPurgeEntries(file, proc.t) IN
        /\ proc' = [proc EXCEPT !.pc = "create",
                     !.keys = IF proc.spec = Absent THEN rest
                              ELSE composeAndMarkEntries(rest, proc.spec, proc.t)]
        /\ UNCHANGED <<queue, faults>>
     \/ Fault /\ proc' = Idle /\ queue' = queue \cup {proc.t}
  /\ UNCHANGED <<tenants, cache, file, ghosts, ops>>

NotWritten ==
  torn' = TRUE /\ missed' = IF proc.spec = Absent THEN missed \cup {proc.t} ELSE missed

(* os.Create empties the file; its failure is logged and not retried. *)
CreateFile ==
  /\ proc.pc = "create"
  /\ \/ file' = <<>> /\ proc' = [proc EXCEPT !.pc = "write"] /\ UNCHANGED faults
        /\ UNCHANGED ghosts
     \/ Fault /\ NotWritten /\ proc' = Idle /\ UNCHANGED file
  /\ UNCHANGED <<tenants, cache, queue, ops>>

WriteFile ==
  /\ proc.pc = "write" /\ proc' = Idle
  /\ \/ /\ file' = proc.keys /\ UNCHANGED <<torn, faults>>
        /\ missed' = missed \ {proc.t}
     \/ Fault /\ NotWritten /\ file' \in Torn(proc.keys)
  /\ UNCHANGED <<tenants, cache, queue, ops>>

Next ==
  \/ \E t \in Tenants : UserSet(t) \/ UserDelete(t) \/ Watch(t) \/ Get(t)
  \/ Crash \/ ReadFile \/ CreateFile \/ WriteFile

Spec == Init /\ [][Next]_vars

-----------------------------------------------------------------------------
(* Properties *)

(* The variables have their types: in particular no malformed key is       *)
(* written to the file (composeAndMarkEntries skips it).                   *)
TypeOK ==
  /\ tenants \in [Tenants -> TenantKeys] /\ cache \in [Tenants -> TenantKeys]
  /\ file \in Seq(Entry) /\ queue \subseteq Tenants
  /\ proc \in [pc : {"idle", "read", "create", "write"}, t : Tenants \cup {Nobody},
              spec : TenantKeys, keys : Seq(Entry)]
  /\ torn \in BOOLEAN /\ missed \subseteq Tenants
  /\ faults \in 0 .. MaxFaults /\ ops \in 0 .. MaxOps

Count(s, e) == Cardinality({i \in DOMAIN s : s[i] = e})

(* The entries of keys for t are exactly the valid keys of its list. *)
Holds(keys, t, list) ==
  \A k \in Keys :
    Count(keys, Create(k, t)) = IF list = Absent THEN 0 ELSE Count(list, k)

(* The entries about to be written are those of the file, except that the  *)
(* ones of the reconciled Tenant are its keys as they were read: removing  *)
(* entries by swapping in the last one loses and keeps no other.           *)
WritesExactly ==
  /\ TypeOK
  /\ proc.pc = "create" =>
       /\ Holds(proc.keys, proc.t, proc.spec)
       /\ \A e \in Entry : e.id # proc.t => Count(proc.keys, e) = Count(file, e)

Settled == queue = {} /\ proc = Idle /\ cache = tenants

(* Once all events are handled, the file holds exactly the valid keys of   *)
(* every Tenant ("write the tenant's public keys into it", the tests say), *)
(* after any edits, failed reads and crashes, also a crash between         *)
(* emptying and writing the file; a failed write, which Reconcile does not *)
(* retry, is repaired by the next start of the operator. It has no keys of *)
(* a deleted Tenant ("contain only the keys of the remaining tenant"),     *)
(* unless the operator stopped, or failed to write, before it got to write *)
(* the deletion.                                                           *)
FileHasKeys ==
  Settled =>
    /\ ~torn => \A t \in Tenants : tenants[t] # Absent => Holds(file, t, tenants[t])
    /\ \A t \in Tenants \ missed : tenants[t] = Absent => Holds(file, t, Absent)
================================================================================
