---------------------------- MODULE RentalRecords ----------------------------
(***************************************************************************)
(* Properties, tenants and leases: services/lease_service.py,              *)
(* tenant_service.py and property_service.py, the tools of the agent that  *)
(* use them or create records themselves (agent/tools/leases.py,           *)
(* entities.py), and the rules of the tables (db/models/rental.py).        *)
(*                                                                         *)
(* Each call reads, decides and commits in a session of its own; calls of  *)
(* several threads and instances overlap under READ COMMITTED.  A call     *)
(* whose reads decide what it writes has two steps here, Begin and End.    *)
(* Any other is one step: what it looks up the foreign keys demand again   *)
(* when it commits.  A lease names its first tenant twice, in its own      *)
(* column and in the roster (the table lease_tenants).                     *)
(*                                                                         *)
(* Dates, rent and payment (update_lease, terminate_lease), units, which   *)
(* come and go with their property, and contact data are left out.         *)
(***************************************************************************)
EXTENDS Naturals

CONSTANTS Tenants, Leases, Properties,  \* ids of rows, never used again
          Names, Addresses,  \* of tenants and properties, case and blanks off
          Calls,             \* calls that can be under way at one time
          None,
          MaxCalls           \* bound: calls made

ASSUME RecordsAssumption ==
    /\ None \notin Tenants \cup Properties \cup Names \cup Addresses
    /\ MaxCalls \in Nat

VARIABLES
    name,     \* name[t]: of tenant t's user; None where there is no row
    address,  \* address[p]: of property p; None where there is no row
    site,     \* site[l]: property of lease l; None where there is no row
    primary,  \* primary[l]: the lease's own column tenant_id
    roster,   \* roster[l]: the tenants lease_tenants links to l
    call,     \* call[c]: what call c has read
    usedTenants, usedLeases, usedProperties,  \* ids given out
    spent,    \* counter of the bound
    raced,    \* history: leases on which two removals overlapped
    excused   \* history: pairs of records nobody compared, or nobody could

rows == <<name, address, site, primary, roster>>
ids == <<usedTenants, usedLeases, usedProperties>>
vars == <<rows, call, ids, spent, raced, excused>>

Idle == [op |-> "idle"]
LiveTenants == {t \in Tenants : name[t] # None}
LiveLeases == {l \in Leases : site[l] # None}
LiveProperties == {p \in Properties : address[p] # None}

Init ==
    /\ name = [t \in Tenants |-> None]
    /\ address = [p \in Properties |-> None]
    /\ site = [l \in Leases |-> None]
    /\ primary = [l \in Leases |-> None]
    /\ roster = [l \in Leases |-> {}]
    /\ call = [c \in Calls |-> Idle]
    /\ usedTenants = {} /\ usedLeases = {} /\ usedProperties = {}
    /\ spent = 0
    /\ raced = {} /\ excused = {}

Count == spent < MaxCalls /\ spent' = spent + 1
Open(c, record) ==
    /\ call[c] = Idle
    /\ call' = [call EXCEPT ![c] = record]
    /\ Count
Close(c) == call' = [call EXCEPT ![c] = Idle]

\* A call of kind op under way could not have seen the record x.
Told(record, op, x) ==
    IF record.op = op THEN [record EXCEPT !.since = @ \cup {x}] ELSE record

\* Records that bear the same name or address as x.
Twins(f, x) == {{x, y} : y \in {z \in DOMAIN f : z # x /\ f[z] = f[x]}}

-----------------------------------------------------------------------------
(* Property records.                                                       *)

\* Mutant of AddressTaken: only properties with a lease are looked through.
AddressTaken_Leased(a) ==
    \E p \in LiveProperties :
        address[p] = a /\ \E l \in LiveLeases : site[l] = p

AddressTaken(a) == \E p \in LiveProperties : address[p] = a

\* The tool create_property answers already_exists if the address is taken.
BeginProperty(c, a) ==
    /\ ~AddressTaken(a)
    /\ Open(c, [op |-> "property", key |-> a, since |-> {}])
    /\ UNCHANGED <<rows, ids, raced, excused>>

\* The row and its units are committed before the onboarding's progress is
\* written; if that fails the call answers with an error all the same.
EndProperty(c) ==
    /\ call[c].op = "property"
    /\ \E p \in Properties \ usedProperties :
         /\ address' = [address EXCEPT ![p] = call[c].key]
         /\ usedProperties' = usedProperties \cup {p}
         /\ call' = [d \in Calls |-> IF d = c THEN Idle
                                     ELSE Told(call[d], "property", p)]
         /\ excused' = excused \cup {{p, q} : q \in call[c].since}
    /\ UNCHANGED <<name, site, primary, roster, usedTenants, usedLeases,
                   spent, raced>>

\* A manager's address goes in unchecked, for a new property or an old one.
SetAddress(p, a) ==
    /\ Count
    /\ address' = [address EXCEPT ![p] = a]
    /\ call' = [d \in Calls |-> Told(call[d], "property", p)]
    /\ excused' = excused \cup Twins(address', p)
    /\ UNCHANGED <<name, site, primary, roster, usedTenants, usedLeases,
                   raced>>

CreateProperty(p, a) ==
    /\ p \notin usedProperties
    /\ usedProperties' = usedProperties \cup {p}
    /\ SetAddress(p, a)

UpdateProperty(p, a) ==
    /\ p \in LiveProperties
    /\ SetAddress(p, a)
    /\ UNCHANGED usedProperties

-----------------------------------------------------------------------------
(* Leases.                                                                 *)

\* The foreign keys of a new lease; its first tenant is put on the roster
\* by the trigger of the table.
InsertLease(l, p, t, ts) ==
    /\ l \notin usedLeases
    /\ p \in LiveProperties
    /\ usedLeases' = usedLeases \cup {l}
    /\ site' = [site EXCEPT ![l] = p]
    /\ primary' = [primary EXCEPT ![l] = t]
    /\ roster' = [roster EXCEPT ![l] = {t} \cup ts]

\* create_lease, and addLeaseForTenant, which differs in whom it asks.
CreateLease(l, p, t, ts) ==
    /\ Count
    /\ {t} \cup ts \subseteq LiveTenants
    /\ InsertLease(l, p, t, ts)
    /\ UNCHANGED <<name, address, call, usedTenants, usedProperties, raced,
                   excused>>

\* Leases go with their links.
Drop(ls) ==
    /\ site' = [l \in Leases |-> IF l \in ls THEN None ELSE site[l]]
    /\ primary' = [l \in Leases |-> IF l \in ls THEN None ELSE primary[l]]

DeleteProperty(p) ==
    /\ p \in LiveProperties
    /\ Count
    /\ address' = [address EXCEPT ![p] = None]
    /\ Drop({l \in Leases : site[l] = p})
    /\ roster' = [l \in Leases |-> IF site[l] = p THEN {} ELSE roster[l]]
    /\ UNCHANGED <<name, call, ids, raced, excused>>

\* Adding a tenant twice does nothing.
AddToLease(l, t) ==
    /\ l \in LiveLeases
    /\ t \in LiveTenants \ roster[l]
    /\ Count
    /\ roster' = [roster EXCEPT ![l] = @ \cup {t}]
    /\ UNCHANGED <<name, address, site, primary, call, ids, raced, excused>>

Remaining(l, t) == roster[l] \ {t}

\* Mutant of Heirs: the lease's own column is left as it is.
Heirs_Forgotten(l, t) == {None}

\* Who takes the place of t in the lease's own column, if t is there.
Heirs(l, t) == IF primary[l] = t THEN Remaining(l, t) ELSE {None}

\* A tenant who is not on the roster needs no removal, and the last one is
\* refused.
BeginRemove(c, l, t) ==
    /\ l \in LiveLeases
    /\ t \in LiveTenants \cap roster[l]
    /\ Remaining(l, t) # {}
    /\ \E h \in Heirs(l, t) :
         Open(c, [op |-> "remove", lease |-> l, tenant |-> t, heir |-> h])
    /\ UNCHANGED <<rows, ids, raced, excused>>

\* The column is written only if it changes; then the lease and the heir
\* must still be there.  A link that has gone is no error.
EndRemove(c) ==
    /\ call[c].op = "remove"
    /\ LET l == call[c].lease
           h == call[c].heir
       IN /\ \/ h = None /\ primary' = primary
             \/ /\ l \in LiveLeases /\ h \in LiveTenants
                /\ primary' = [primary EXCEPT ![l] = h]
          /\ roster' = [roster EXCEPT ![l] = @ \ {call[c].tenant}]
          /\ raced' = IF \E d \in Calls :
                            /\ call[d].op = "remove" /\ call[d].lease = l
                            /\ call[d].tenant # call[c].tenant
                      THEN raced \cup {l} ELSE raced
    /\ Close(c)
    /\ UNCHANGED <<name, address, site, ids, spent, excused>>

-----------------------------------------------------------------------------
(* Tenants.                                                                *)

\* Mutant of NameTaken: only tenants on a lease are looked through.
NameTaken_OnLease(n) ==
    \E t \in LiveTenants : name[t] = n /\ \E l \in LiveLeases : t \in roster[l]

NameTaken(n) == \E t \in LiveTenants : name[t] = n

\* The tool create_tenant answers already_exists if the name is taken; p is
\* None without the terms of a lease.
BeginTenant(c, n, p) ==
    /\ ~NameTaken(n)
    /\ p \in LiveProperties \cup {None}
    /\ Open(c, [op |-> "tenant", key |-> n, site |-> p, since |-> {}])
    /\ UNCHANGED <<rows, ids, raced, excused>>

\* The tenant and the lease are one transaction.
EndTenant(c) ==
    /\ call[c].op = "tenant"
    /\ \E t \in Tenants \ usedTenants :
         /\ name' = [name EXCEPT ![t] = call[c].key]
         /\ usedTenants' = usedTenants \cup {t}
         /\ call' = [d \in Calls |-> IF d = c THEN Idle
                                     ELSE Told(call[d], "tenant", t)]
         /\ excused' = excused \cup {{t, u} : u \in call[c].since}
         /\ \/ /\ call[c].site = None
               /\ UNCHANGED <<site, primary, roster, usedLeases>>
            \/ /\ call[c].site # None
               /\ \E l \in Leases : InsertLease(l, call[c].site, t, {})
    /\ UNCHANGED <<address, usedProperties, spent, raced>>

\* createTenantWithLease does not ask whether there is such a tenant.  More
\* new tenants on its form are left out: they, too, go in unchecked.
CreateTenantWithLease(t, n, l, p, ts) ==
    /\ Count
    /\ t \notin usedTenants
    /\ ts \subseteq LiveTenants
    /\ name' = [name EXCEPT ![t] = n]
    /\ usedTenants' = usedTenants \cup {t}
    /\ InsertLease(l, p, t, ts)
    /\ call' = [d \in Calls |-> Told(call[d], "tenant", t)]
    /\ excused' = excused \cup Twins(name', t)
    /\ UNCHANGED <<address, usedProperties, raced>>

\* The leases of the tenant are read ...
BeginDelete(c, t) ==
    /\ t \in LiveTenants
    /\ Open(c, [op |-> "delete", tenant |-> t,
                doomed |-> {l \in LiveLeases : t \in roster[l]}])
    /\ UNCHANGED <<rows, ids, raced, excused>>

\* ... and deleted, whoever else is on them; the foreign keys take the rest
\* of what names the tenant.
EndDelete(c) ==
    /\ call[c].op = "delete"
    /\ LET t == call[c].tenant
           lost == call[c].doomed \cup {l \in Leases : primary[l] = t}
       IN /\ name' = [name EXCEPT ![t] = None]
          /\ Drop(lost)
          /\ roster' = [l \in Leases |->
                          IF l \in lost THEN {} ELSE roster[l] \ {t}]
    /\ Close(c)
    /\ UNCHANGED <<address, ids, spent, raced, excused>>

-----------------------------------------------------------------------------

\* An error, a refused foreign key or the end of the process: all is undone.
Fail(c) ==
    /\ call[c] # Idle
    /\ Close(c)
    /\ UNCHANGED <<rows, ids, spent, raced, excused>>

Next ==
    \/ \E p \in Properties :
         \/ \E a \in Addresses : CreateProperty(p, a) \/ UpdateProperty(p, a)
         \/ DeleteProperty(p)
    \/ \E l \in Leases, p \in Properties, t \in Tenants :
         \E ts \in SUBSET (Tenants \ {t}) :
           \/ CreateLease(l, p, t, ts)
           \/ \E n \in Names : CreateTenantWithLease(t, n, l, p, ts)
    \/ \E l \in Leases, t \in Tenants : AddToLease(l, t)
    \/ \E c \in Calls :
         \/ \E a \in Addresses : BeginProperty(c, a)
         \/ EndProperty(c)
         \/ \E n \in Names, p \in Properties \cup {None} : BeginTenant(c, n, p)
         \/ EndTenant(c)
         \/ \E l \in Leases, t \in Tenants : BeginRemove(c, l, t)
         \/ EndRemove(c)
         \/ \E t \in Tenants : BeginDelete(c, t)
         \/ EndDelete(c)
         \/ Fail(c)

Spec == Init /\ [][Next]_vars

-----------------------------------------------------------------------------
(* Properties.                                                             *)

Requests ==
    [op : {"property"}, key : Addresses, since : SUBSET Properties]
      \cup [op : {"tenant"}, key : Names, site : Properties \cup {None},
            since : SUBSET Tenants]
      \cup [op : {"remove"}, lease : Leases, tenant : Tenants,
            heir : Tenants \cup {None}]
      \cup [op : {"delete"}, tenant : Tenants, doomed : SUBSET Leases]
      \cup {Idle}

\* Every variable has a value of its kind.
TypeOK ==
    /\ name \in [Tenants -> Names \cup {None}]
    /\ address \in [Properties -> Addresses \cup {None}]
    /\ site \in [Leases -> Properties \cup {None}]
    /\ primary \in [Leases -> Tenants \cup {None}]
    /\ roster \in [Leases -> SUBSET Tenants]
    /\ call \in [Calls -> Requests]
    /\ usedTenants \subseteq Tenants
    /\ usedLeases \subseteq Leases
    /\ usedProperties \subseteq Properties
    /\ spent \in Nat
    /\ raced \subseteq Leases
    /\ excused \subseteq SUBSET (Tenants \cup Properties)

\* The tenant in a lease's own column is on its roster (lease_service.py,
\* 349-353): deletions, additions and removals keep it so in any order, and
\* only two removals that overlap can undo it.
PrimaryOnRoster ==
    \A l \in LiveLeases : l \in raced \/ primary[l] \in roster[l]

\* The agent's tools make no second record of a tenant or a property, call
\* after call, whatever an earlier call answered: two of a name overlapped,
\* or a manager entered one of them (entities.py, 124-147 and 302-318).
DuplicatesAreExplained ==
    /\ \A t, u \in LiveTenants :
         t # u /\ name[t] = name[u] => {t, u} \in excused
    /\ \A p, q \in LiveProperties :
         p # q /\ address[p] = address[q] => {p, q} \in excused
=============================================================================
