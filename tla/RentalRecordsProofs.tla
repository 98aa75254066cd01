------------------------- MODULE RentalRecordsProofs -------------------------
(***************************************************************************)
(* Proofs about RentalRecords, for any ids, names, calls and bound.  The   *)
(* invariant says of a removal under way that what it read still holds,    *)
(* unless two removals have overlapped on the lease, and of a creation     *)
(* that it has been told of every record it could not see.                 *)
(***************************************************************************)
EXTENDS RentalRecords, TLAPS

-----------------------------------------------------------------------------
(* Types.                                                                  *)

LEMMA ToldType ==
    ASSUME NEW r \in Requests, NEW op, NEW x,
           op = "tenant" => x \in Tenants,
           op = "property" => x \in Properties,
           op \in {"tenant", "property"}
    PROVE  Told(r, op, x) \in Requests
<1>1. CASE r.op # op  BY <1>1 DEF Told
<1>2. CASE r.op = op /\ op = "tenant"
  <2>1. r \in [op : {"tenant"}, key : Names, site : Properties \cup {None},
               since : SUBSET Tenants]
    BY <1>2 DEF Requests, Idle
  <2>2. Told(r, op, x) = [r EXCEPT !.since = @ \cup {x}]
    BY <1>2 DEF Told
  <2> QED  BY <2>1, <2>2, <1>2 DEF Requests
<1>3. CASE r.op = op /\ op = "property"
  <2>1. r \in [op : {"property"}, key : Addresses, since : SUBSET Properties]
    BY <1>3 DEF Requests, Idle
  <2>2. Told(r, op, x) = [r EXCEPT !.since = @ \cup {x}]
    BY <1>3 DEF Told
  <2> QED  BY <2>1, <2>2, <1>3 DEF Requests
<1> QED  BY <1>1, <1>2, <1>3

\* The fields of a request of each kind.
LEMMA Fields ==
    ASSUME NEW r \in Requests
    PROVE  /\ r.op = "property" => r.key \in Addresses
                                   /\ r.since \subseteq Properties
           /\ r.op = "tenant" => /\ r.key \in Names
                                 /\ r.site \in Properties \cup {None}
                                 /\ r.since \subseteq Tenants
           /\ r.op = "remove" => /\ r.lease \in Leases
                                 /\ r.tenant \in Tenants
                                 /\ r.heir \in Tenants \cup {None}
           /\ r.op = "delete" => /\ r.tenant \in Tenants
                                 /\ r.doomed \subseteq Leases
  BY DEF Requests, Idle

\* What is added to the requests a step may open.
LEMMA Opened ==
    /\ \A a \in Addresses :
         [op |-> "property", key |-> a, since |-> {}] \in Requests
    /\ \A n \in Names, p \in Properties \cup {None} :
         [op |-> "tenant", key |-> n, site |-> p, since |-> {}] \in Requests
    /\ \A l \in Leases, t \in Tenants, h \in Tenants \cup {None} :
         [op |-> "remove", lease |-> l, tenant |-> t, heir |-> h]
           \in Requests
    /\ \A t \in Tenants, ls \in SUBSET Leases :
         [op |-> "delete", tenant |-> t, doomed |-> ls] \in Requests
    /\ Idle \in Requests
  BY DEF Requests

LEMMA InsertLeaseType ==
    ASSUME TypeOK, NEW l \in Leases, NEW p \in Properties, NEW t \in Tenants,
           NEW ts \in SUBSET Tenants, InsertLease(l, p, t, ts)
    PROVE  /\ site' \in [Leases -> Properties \cup {None}]
           /\ primary' \in [Leases -> Tenants \cup {None}]
           /\ roster' \in [Leases -> SUBSET Tenants]
           /\ usedLeases' \subseteq Leases
  BY DEF TypeOK, InsertLease

LEMMA TwinsType ==
    ASSUME NEW S, NEW f, DOMAIN f \subseteq S, NEW x \in S
    PROVE  Twins(f, x) \subseteq SUBSET S
  BY DEF Twins

LEMMA TypeInit == Init => TypeOK
  BY RecordsAssumption, Opened DEF Init, TypeOK

LEMMA TypeStep == TypeOK /\ [Next]_vars => TypeOK'
<1> SUFFICES ASSUME TypeOK, [Next]_vars PROVE TypeOK'
  OBVIOUS
<1> USE DEF TypeOK
<1>0. \A c \in Calls : call[c] \in Requests
  OBVIOUS
<1>c. \A c \in Calls : Close(c) => call' \in [Calls -> Requests]
  BY Opened DEF Close
<1>s. Count => spent' \in Nat
  BY DEF Count
<1>o. \A c \in Calls, r \in Requests :
        Open(c, r) => call' \in [Calls -> Requests] /\ spent' \in Nat
  BY <1>s DEF Open
<1>tt. \A t \in Tenants, d \in Calls : Told(call[d], "tenant", t) \in Requests
  BY <1>0, ToldType
<1>tp. \A p \in Properties, d \in Calls :
         Told(call[d], "property", p) \in Requests
  BY <1>0, ToldType
<1>a. ASSUME NEW p \in Properties, NEW a \in Addresses, SetAddress(p, a),
             usedProperties' \subseteq Properties
      PROVE  TypeOK'
  <2>1. call' \in [Calls -> Requests]  BY <1>a, <1>tp DEF SetAddress
  <2>2. address' \in [Properties -> Addresses \cup {None}]
    BY <1>a DEF SetAddress
  <2>3. Twins(address', p) \subseteq SUBSET (Tenants \cup Properties)
    BY <2>2, TwinsType
  <2> QED  BY <1>a, <1>s, <2>1, <2>2, <2>3 DEF SetAddress
<1>1. ASSUME NEW p \in Properties, NEW a \in Addresses, CreateProperty(p, a)
      PROVE  TypeOK'
  BY <1>1, <1>a DEF CreateProperty
<1>2. ASSUME NEW p \in Properties, NEW a \in Addresses, UpdateProperty(p, a)
      PROVE  TypeOK'
  BY <1>2, <1>a DEF UpdateProperty
<1>3. ASSUME NEW p \in Properties, DeleteProperty(p) PROVE TypeOK'
  BY <1>3, <1>s DEF DeleteProperty, Drop, rows, ids
<1>4. ASSUME NEW l \in Leases, NEW p \in Properties, NEW t \in Tenants,
             NEW ts \in SUBSET (Tenants \ {t}), CreateLease(l, p, t, ts)
      PROVE  TypeOK'
  BY <1>4, <1>s, InsertLeaseType DEF CreateLease
<1>5. ASSUME NEW l \in Leases, NEW p \in Properties, NEW t \in Tenants,
             NEW ts \in SUBSET (Tenants \ {t}), NEW n \in Names,
             CreateTenantWithLease(t, n, l, p, ts)
      PROVE  TypeOK'
  <2> USE <1>5 DEF CreateTenantWithLease
  <2>1. call' \in [Calls -> Requests]  BY <1>tt
  <2>2. name' \in [Tenants -> Names \cup {None}]  OBVIOUS
  <2>6. DOMAIN name' = Tenants  BY <2>2
  <2>7. Twins(name', t) \subseteq SUBSET Tenants
    BY ONLY <2>6, TwinsType, t \in Tenants
  <2>3. Twins(name', t) \subseteq SUBSET (Tenants \cup Properties)
    BY ONLY <2>7
  <2>4. spent' \in Nat  BY <1>s
  <2>5. /\ site' \in [Leases -> Properties \cup {None}]
        /\ primary' \in [Leases -> Tenants \cup {None}]
        /\ roster' \in [Leases -> SUBSET Tenants]
        /\ usedLeases' \subseteq Leases
    BY InsertLeaseType
  <2> QED  BY <2>1, <2>2, <2>3, <2>4, <2>5
<1>6. ASSUME NEW l \in Leases, NEW t \in Tenants, AddToLease(l, t)
      PROVE  TypeOK'
  BY <1>6, <1>s DEF AddToLease, ids
<1>7. ASSUME NEW c \in Calls, NEW a \in Addresses, BeginProperty(c, a)
      PROVE  TypeOK'
  BY <1>7, <1>o, Opened DEF BeginProperty, rows, ids
<1>8. ASSUME NEW c \in Calls, EndProperty(c) PROVE TypeOK'
  <2>1. PICK p \in Properties \ usedProperties :
          /\ address' = [address EXCEPT ![p] = call[c].key]
          /\ usedProperties' = usedProperties \cup {p}
          /\ call' = [d \in Calls |-> IF d = c THEN Idle
                                      ELSE Told(call[d], "property", p)]
          /\ excused' = excused \cup {{p, q} : q \in call[c].since}
    BY <1>8 DEF EndProperty
  <2>2. call[c].key \in Addresses /\ call[c].since \subseteq Properties
    BY <1>8, <1>0, Fields DEF EndProperty
  <2>3. call' \in [Calls -> Requests]  BY <2>1, <1>tp, Opened
  <2> QED  BY <1>8, <2>1, <2>2, <2>3 DEF EndProperty
<1>9. ASSUME NEW c \in Calls, NEW n \in Names, NEW p \in Properties \cup {None},
             BeginTenant(c, n, p)
      PROVE  TypeOK'
  BY <1>9, <1>o, Opened DEF BeginTenant, rows, ids
<1>10. ASSUME NEW c \in Calls, EndTenant(c) PROVE TypeOK'
  <2>1. PICK t \in Tenants \ usedTenants :
          /\ name' = [name EXCEPT ![t] = call[c].key]
          /\ usedTenants' = usedTenants \cup {t}
          /\ call' = [d \in Calls |-> IF d = c THEN Idle
                                      ELSE Told(call[d], "tenant", t)]
          /\ excused' = excused \cup {{t, u} : u \in call[c].since}
          /\ \/ /\ call[c].site = None
                /\ UNCHANGED <<site, primary, roster, usedLeases>>
             \/ /\ call[c].site # None
                /\ \E l \in Leases : InsertLease(l, call[c].site, t, {})
    BY <1>10 DEF EndTenant
  <2>2. /\ call[c].key \in Names /\ call[c].since \subseteq Tenants
        /\ call[c].site \in Properties \cup {None}
    BY <1>10, <1>0, Fields DEF EndTenant
  <2>3. call' \in [Calls -> Requests]  BY <2>1, <1>tt, Opened
  <2>4. /\ site' \in [Leases -> Properties \cup {None}]
        /\ primary' \in [Leases -> Tenants \cup {None}]
        /\ roster' \in [Leases -> SUBSET Tenants]
        /\ usedLeases' \subseteq Leases
    BY <2>1, <2>2, InsertLeaseType
  <2> QED  BY <1>10, <2>1, <2>2, <2>3, <2>4 DEF EndTenant
<1>11. ASSUME NEW c \in Calls, NEW l \in Leases, NEW t \in Tenants,
              BeginRemove(c, l, t)
       PROVE  TypeOK'
  <2>1. PICK h \in Heirs(l, t) :
          Open(c, [op |-> "remove", lease |-> l, tenant |-> t, heir |-> h])
    BY <1>11 DEF BeginRemove
  <2>2. h \in Tenants \cup {None}
    BY <2>1 DEF Heirs, Remaining
  <2> QED  BY <1>11, <2>1, <2>2, <1>o, Opened DEF BeginRemove, rows, ids
<1>12. ASSUME NEW c \in Calls, EndRemove(c) PROVE TypeOK'
  <2>1. call[c].lease \in Leases /\ call[c].heir \in Tenants \cup {None}
    BY <1>12, <1>0, Fields DEF EndRemove
  <2> QED  BY <1>12, <2>1, <1>c DEF EndRemove, ids
<1>13. ASSUME NEW c \in Calls, NEW t \in Tenants, BeginDelete(c, t)
       PROVE  TypeOK'
  BY <1>13, <1>o, Opened DEF BeginDelete, LiveLeases, rows, ids
<1>14. ASSUME NEW c \in Calls, EndDelete(c) PROVE TypeOK'
  <2>1. call[c].tenant \in Tenants
    BY <1>14, <1>0, Fields DEF EndDelete
  <2> QED  BY <1>14, <2>1, <1>c DEF EndDelete, Drop, ids
<1>15. ASSUME NEW c \in Calls, Fail(c) PROVE TypeOK'
  BY <1>15, <1>c DEF Fail, rows, ids
<1>16. CASE UNCHANGED vars  BY <1>16 DEF vars, rows, ids
<1> QED
  BY <1>1, <1>2, <1>3, <1>4, <1>5, <1>6, <1>7, <1>8, <1>9, <1>10, <1>11,
     <1>12, <1>13, <1>14, <1>15, <1>16 DEF Next

\* Every variable has a value of its kind, for any ids and calls.
THEOREM TypeCorrect == Spec => []TypeOK
  BY TypeInit, TypeStep, PTL DEF Spec

-----------------------------------------------------------------------------
(* The tenant in a lease's own column.                                     *)

\* Ids are given out before a row has them.
IdsInv ==
    /\ LiveTenants \subseteq usedTenants
    /\ LiveLeases \subseteq usedLeases
    /\ \A l \in Leases : roster[l] \subseteq usedTenants

\* What a removal under way has read.
Removal(r) ==
    r.op = "remove" =>
      /\ r.lease \in usedLeases
      /\ r.heir # None => r.heir \in usedTenants /\ r.heir # r.tenant
      /\ r.lease \notin raced /\ r.lease \in LiveLeases =>
           /\ r.heir = None => primary[r.lease] # r.tenant
           /\ r.heir # None => \/ r.heir \in roster[r.lease]
                               \/ name[r.heir] = None

RosterInv ==
    /\ TypeOK
    /\ IdsInv
    /\ \A c \in Calls : Removal(call[c])
    /\ PrimaryOnRoster

\* Kinds of calls.
Kinds == {"property", "tenant", "remove", "delete"}

\* No call of kind k is new or changed.
Unmoved(k) == \A c \in Calls : call'[c].op = k => call'[c] = call[c]

\* A step that takes nobody off the roster of a lease that stays, but one
\* who goes himself, and leaves the lease's own column alone.
Calm ==
    /\ usedTenants \subseteq usedTenants'
    /\ usedLeases \subseteq usedLeases'
    /\ raced \subseteq raced'
    /\ \A t \in usedTenants : name[t] = None => name'[t] = None
    /\ \A l \in usedLeases : site'[l] # None =>
         /\ site[l] # None
         /\ primary'[l] = primary[l]
         /\ \A t \in roster[l] : t \in roster'[l] \/ name'[t] = None
    /\ Unmoved("remove")

LEMMA CalmKeeps ==
    ASSUME RosterInv, TypeOK', Calm
    PROVE  \A c \in Calls : Removal(call[c])'
<1> SUFFICES ASSUME NEW c \in Calls, call'[c].op = "remove"
             PROVE  Removal(call[c])'
  BY DEF Removal
<1> DEFINE r == call[c]
<1>1. call'[c] = r  BY DEF Calm, Unmoved
<1>2. Removal(r) /\ r \in Requests /\ r.op = "remove"
  BY <1>1 DEF RosterInv, TypeOK
<1>3. r.lease \in Leases /\ r.tenant \in Tenants
      /\ r.heir \in Tenants \cup {None}
  BY <1>2, Fields
<1>4. r.lease \in usedLeases'
      /\ (r.heir # None => r.heir \in usedTenants' /\ r.heir # r.tenant)
  BY <1>2 DEF Removal, Calm
<1>5. ASSUME r.lease \notin raced', site'[r.lease] # None
      PROVE  /\ r.heir = None => primary'[r.lease] # r.tenant
             /\ r.heir # None => \/ r.heir \in roster'[r.lease]
                                 \/ name'[r.heir] = None
  <2>1. /\ r.lease \in usedLeases /\ r.lease \notin raced
        /\ r.lease \in LiveLeases
    BY <1>2, <1>3, <1>5 DEF Removal, Calm, LiveLeases
  <2>2. /\ primary'[r.lease] = primary[r.lease]
        /\ \A t \in roster[r.lease] :
             t \in roster'[r.lease] \/ name'[t] = None
    BY <1>5, <2>1 DEF Calm
  <2>3. /\ r.heir = None => primary[r.lease] # r.tenant
        /\ r.heir # None => /\ r.heir \in usedTenants
                            /\ \/ r.heir \in roster[r.lease]
                               \/ name[r.heir] = None
    BY <1>2, <2>1 DEF Removal
  <2> QED  BY <2>2, <2>3 DEF Calm
<1>6. r.lease \in LiveLeases' => site'[r.lease] # None
  BY DEF LiveLeases
<1> HIDE DEF r
<1> QED  BY <1>1, <1>4, <1>5, <1>6 DEF Removal

LEMMA ToldOp ==
    ASSUME NEW r \in Requests, NEW op \in {"tenant", "property"}, NEW x
    PROVE  /\ Told(r, op, x).op = r.op
           /\ r.op # op => Told(r, op, x) = r
           /\ r.op = op => Told(r, op, x) = [r EXCEPT !.since = @ \cup {x}]
<1>1. CASE r.op # op  BY <1>1 DEF Told
<1>2. CASE r.op = op  BY <1>2 DEF Told, Requests, Idle
<1> QED  BY <1>1, <1>2

\* Being told of a record changes calls of the record's kind alone.
LEMMA ToldCalm ==
    ASSUME TypeOK, NEW op \in {"tenant", "property"}, NEW x, NEW e,
           e \subseteq Calls, NEW k \in Kinds, k # op,
           call' = [d \in Calls |-> IF d \in e THEN Idle
                                    ELSE Told(call[d], op, x)]
    PROVE  Unmoved(k)
<1> SUFFICES ASSUME NEW c \in Calls, call'[c].op = k
             PROVE  call'[c] = call[c]
  BY DEF Unmoved
<1>1. c \notin e  BY DEF Idle, Kinds
<1>2. call'[c] = Told(call[c], op, x)  BY <1>1
<1>3. call[c] \in Requests  BY DEF TypeOK
<1>4. call[c].op = k  BY <1>2, <1>3, ToldOp
<1> QED  BY <1>2, <1>3, <1>4, ToldOp

LEMMA OpenCalm ==
    ASSUME TypeOK, NEW c \in Calls, NEW r, NEW k \in Kinds, r.op # k,
           Open(c, r)
    PROVE  Unmoved(k)
  BY DEF TypeOK, Open, Unmoved

LEMMA CloseCalm ==
    ASSUME TypeOK, NEW c \in Calls, NEW k \in Kinds, Close(c)
    PROVE  Unmoved(k)
  BY DEF TypeOK, Close, Idle, Kinds, Unmoved

\* Where the rows of leases and tenants stay as they are.
LEMMA RowsStay ==
    ASSUME RosterInv, TypeOK',
           UNCHANGED <<name, site, primary, roster, usedTenants, usedLeases,
                       raced>>,
           Unmoved("remove")
    PROVE  RosterInv'
<1>1. IdsInv'
  BY DEF RosterInv, IdsInv, LiveTenants, LiveLeases
<1>2. PrimaryOnRoster'
  BY DEF RosterInv, PrimaryOnRoster, LiveLeases
<1>3. Calm  BY DEF RosterInv, TypeOK, Calm
<1> QED  BY <1>1, <1>2, <1>3, CalmKeeps DEF RosterInv

\* A new lease has its first tenant on its roster, and no removal.
LEMMA InsertLeaseRoster ==
    ASSUME RosterInv, TypeOK',
           NEW l \in Leases, NEW p \in Properties, NEW t \in Tenants,
           NEW ts \in SUBSET Tenants, InsertLease(l, p, t, ts),
           {t} \cup ts \subseteq usedTenants',
           usedTenants \subseteq usedTenants',
           LiveTenants' \subseteq usedTenants',
           \A u \in usedTenants : name'[u] = name[u],
           raced' = raced,
           Unmoved("remove")
    PROVE  RosterInv'
<1> USE DEF InsertLease
<1>1. \A k \in Leases : k # l => /\ site'[k] = site[k]
                                 /\ primary'[k] = primary[k]
                                 /\ roster'[k] = roster[k]
  BY DEF RosterInv, TypeOK
<1>2. /\ site'[l] = p /\ primary'[l] = t /\ roster'[l] = {t} \cup ts
  BY DEF RosterInv, TypeOK
<1>3. usedLeases' = usedLeases \cup {l} /\ l \notin usedLeases
  OBVIOUS
<1>4. IdsInv'
  BY <1>1, <1>2, <1>3 DEF RosterInv, IdsInv, LiveLeases
<1>5. PrimaryOnRoster'
  BY <1>1, <1>2 DEF RosterInv, PrimaryOnRoster, LiveLeases
<1>6. Calm
  <2>1. \A k \in usedLeases : k \in Leases /\ k # l
    BY <1>3 DEF RosterInv, TypeOK
  <2> QED  BY <1>1, <1>3, <2>1 DEF Calm
<1> QED  BY <1>4, <1>5, <1>6, CalmKeeps DEF RosterInv

LEMMA RosterInit == Init => RosterInv
<1> SUFFICES ASSUME Init PROVE RosterInv
  OBVIOUS
<1>1. TypeOK  BY TypeInit
<1>2. IdsInv  BY DEF Init, IdsInv, LiveTenants, LiveLeases
<1>3. \A c \in Calls : Removal(call[c])  BY DEF Init, Removal, Idle
<1>4. PrimaryOnRoster  BY DEF Init, PrimaryOnRoster, LiveLeases
<1> QED  BY <1>1, <1>2, <1>3, <1>4 DEF RosterInv

\* Leases go, and one tenant at most with his links.
LEMMA DropRoster ==
    ASSUME RosterInv, TypeOK', NEW ls \in SUBSET Leases, NEW gone, Drop(ls),
           roster' = [l \in Leases |->
                        IF l \in ls THEN {} ELSE roster[l] \ gone],
           \A t \in Tenants : name'[t] = IF t \in gone THEN None ELSE name[t],
           \A l \in Leases \ ls : primary[l] \notin gone,
           UNCHANGED <<usedTenants, usedLeases, raced>>,
           Unmoved("remove")
    PROVE  RosterInv'
<1>1. \A l \in Leases \ ls : /\ site'[l] = site[l]
                             /\ primary'[l] = primary[l]
                             /\ roster'[l] = roster[l] \ gone
  BY DEF Drop
<1>2. \A l \in ls : site'[l] = None /\ roster'[l] = {}
  BY DEF Drop
<1>3. IdsInv'
  BY <1>1, <1>2 DEF RosterInv, IdsInv, LiveTenants, LiveLeases
<1>4. PrimaryOnRoster'
  BY <1>1, <1>2 DEF RosterInv, PrimaryOnRoster, LiveLeases
<1>5. Calm
  <2>1. usedTenants \subseteq Tenants /\ usedLeases \subseteq Leases
        /\ \A l \in Leases : roster[l] \subseteq Tenants
    BY DEF RosterInv, TypeOK
  <2> QED  BY <1>1, <1>2, <2>1 DEF Calm
<1> QED  BY <1>3, <1>4, <1>5, CalmKeeps DEF RosterInv

\* A removal begins: what it reads is so.
LEMMA BeginRemoveRoster ==
    ASSUME RosterInv, TypeOK', NEW c \in Calls, NEW l \in Leases,
           NEW t \in Tenants, BeginRemove(c, l, t)
    PROVE  RosterInv'
<1> USE DEF BeginRemove, rows, ids
<1>1. PICK h \in Heirs(l, t) :
        Open(c, [op |-> "remove", lease |-> l, tenant |-> t, heir |-> h])
  OBVIOUS
<1>2. IdsInv'
  BY DEF RosterInv, IdsInv, LiveTenants, LiveLeases
<1>3. PrimaryOnRoster'
  BY DEF RosterInv, PrimaryOnRoster, LiveLeases
<1>4. /\ h = None => primary[l] # t
      /\ h # None => h \in roster[l] /\ h # t
  <2>1. roster[l] \subseteq Tenants /\ None \notin Tenants
    BY RecordsAssumption DEF RosterInv, TypeOK
  <2> QED  BY <1>1, <2>1 DEF Heirs, Remaining
<1>5. roster[l] \subseteq usedTenants /\ l \in usedLeases
  BY DEF RosterInv, IdsInv
<1>6. \A d \in Calls : Removal(call[d])'
  <2> SUFFICES ASSUME NEW d \in Calls PROVE Removal(call[d])'
    OBVIOUS
  <2>1. CASE d # c
    <3>1. call'[d] = call[d]  BY <1>1, <2>1 DEF Open, RosterInv, TypeOK
    <3> QED  BY <3>1 DEF RosterInv, Removal, LiveLeases
  <2>2. CASE d = c
    <3>1. call'[d] = [op |-> "remove", lease |-> l, tenant |-> t, heir |-> h]
      BY <1>1, <2>2 DEF Open, RosterInv, TypeOK
    <3> QED  BY <3>1, <1>4, <1>5 DEF Removal, LiveLeases
  <2> QED  BY <2>1, <2>2
<1> QED  BY <1>2, <1>3, <1>6 DEF RosterInv

\* A removal ends: unless it was raced, the column names one who stays.
LEMMA EndRemoveRoster ==
    ASSUME RosterInv, TypeOK', NEW c \in Calls, EndRemove(c)
    PROVE  RosterInv'
<1> DEFINE l == call[c].lease
           t == call[c].tenant
           h == call[c].heir
<1>1. /\ call[c] \in Requests /\ call[c].op = "remove"
      /\ Removal(call[c])
  BY DEF RosterInv, TypeOK, EndRemove
<1>2. l \in Leases /\ t \in Tenants /\ h \in Tenants \cup {None}
  BY <1>1, Fields
<1>3. /\ UNCHANGED <<name, address, site, ids, spent, excused>>
      /\ roster' = [roster EXCEPT ![l] = @ \ {t}]
      /\ \/ h = None /\ primary' = primary
         \/ /\ l \in LiveLeases /\ h \in LiveTenants
            /\ primary' = [primary EXCEPT ![l] = h]
      /\ raced' = IF \E d \in Calls :
                        /\ call[d].op = "remove" /\ call[d].lease = l
                        /\ call[d].tenant # t
                  THEN raced \cup {l} ELSE raced
      /\ call' = [call EXCEPT ![c] = Idle]
  BY DEF EndRemove, Close
<1>4. \A k \in Leases \ {l} : roster'[k] = roster[k]
                              /\ primary'[k] = primary[k]
  BY <1>2, <1>3 DEF RosterInv, TypeOK
<1>5. roster'[l] = roster[l] \ {t}
  BY <1>2, <1>3 DEF RosterInv, TypeOK
<1>6. primary'[l] = IF h = None THEN primary[l] ELSE h
  <2>1. h \in LiveTenants => h # None
    BY RecordsAssumption DEF LiveTenants
  <2> QED  BY <1>2, <1>3, <2>1 DEF RosterInv, TypeOK
<1>7. h # None => name[h] # None
  BY <1>3 DEF LiveTenants
<1>8. raced \subseteq raced'  BY <1>3
<1>9. IdsInv'
  <2>1. \A k \in Leases : roster'[k] \subseteq roster[k]
    BY <1>4, <1>5
  <2> QED  BY <1>3, <2>1 DEF RosterInv, IdsInv, LiveTenants, LiveLeases, ids
<1>10. PrimaryOnRoster'
  <2> SUFFICES ASSUME NEW k \in Leases, site[k] # None, k \notin raced'
               PROVE  primary'[k] \in roster'[k]
    BY <1>3 DEF PrimaryOnRoster, LiveLeases
  <2>1. k \notin raced /\ primary[k] \in roster[k]
    BY <1>8 DEF RosterInv, PrimaryOnRoster, LiveLeases
  <2>2. CASE k # l  BY <1>4, <2>1, <2>2
  <2>3. CASE k = l
    <3>1. /\ h = None => primary[l] # t
          /\ h # None => h # t /\ h \in roster[l]
      BY <1>1, <1>7, <2>1, <2>3 DEF Removal, LiveLeases
    <3> HIDE DEF l, t, h
    <3> QED  BY <1>5, <1>6, <2>1, <2>3, <3>1
  <2> QED  BY <2>2, <2>3
<1>11. ASSUME NEW d \in Calls PROVE Removal(call[d])'
  <2> SUFFICES ASSUME call'[d].op = "remove" PROVE Removal(call[d])'
    BY DEF Removal
  <2>1. d # c /\ call'[d] = call[d]
    BY <1>3 DEF RosterInv, TypeOK, Idle
  <2> DEFINE r == call[d]
  <2>2. Removal(r) /\ r.op = "remove" /\ r \in Requests
    BY <2>1 DEF RosterInv, TypeOK
  <2>3. r.lease \in Leases  BY <2>2, Fields
  <2>4. /\ r.lease \in usedLeases'
        /\ r.heir # None => r.heir \in usedTenants' /\ r.heir # r.tenant
    BY <1>3, <2>2 DEF Removal, ids
  <2>5. ASSUME r.lease \notin raced', r.lease \in LiveLeases
        PROVE  /\ r.heir = None => primary'[r.lease] # r.tenant
               /\ r.heir # None => \/ r.heir \in roster'[r.lease]
                                   \/ name'[r.heir] = None
    <3>1. /\ r.heir = None => primary[r.lease] # r.tenant
          /\ r.heir # None => /\ r.heir # r.tenant
                              /\ \/ r.heir \in roster[r.lease]
                                 \/ name[r.heir] = None
      BY <1>8, <2>2, <2>5 DEF Removal
    <3>2. CASE r.lease # l  BY <1>3, <1>4, <2>3, <3>1, <3>2
    <3>3. CASE r.lease = l
      <4>1. r.tenant = t  BY <1>3, <2>2, <2>5, <3>3
      <4>2. h # None => h # t  BY <1>1 DEF Removal
      <4> HIDE DEF l, t, h, r
      <4> QED  BY <1>3, <1>5, <1>6, <3>1, <3>3, <4>1, <4>2
    <3> QED  BY <3>2, <3>3
  <2>6. r.lease \in LiveLeases' <=> r.lease \in LiveLeases
    BY <1>3 DEF LiveLeases
  <2>7. call'[d] = r  BY <2>1
  <2> HIDE DEF r
  <2> QED  BY <2>4, <2>5, <2>6, <2>7 DEF Removal
<1> QED  BY <1>9, <1>10, <1>11 DEF RosterInv

LEMMA RosterStep == RosterInv /\ [Next]_vars => RosterInv'
<1> SUFFICES ASSUME RosterInv, [Next]_vars PROVE RosterInv'
  OBVIOUS
<1>t. TypeOK /\ TypeOK'  BY TypeStep DEF RosterInv
<1>a. ASSUME NEW p \in Properties, NEW a \in Addresses, SetAddress(p, a)
      PROVE  RosterInv'
  <2> DEFINE none == {}
  <2>0. none \subseteq Calls  OBVIOUS
  <2>1. call' = [d \in Calls |-> IF d \in none THEN Idle
                                 ELSE Told(call[d], "property", p)]
    BY <1>a DEF SetAddress
  <2> HIDE DEF none
  <2>2. Unmoved("remove")
    BY <1>t, <2>0, <2>1, ToldCalm DEF Kinds
  <2> QED  BY <1>a, <1>t, <2>2, RowsStay DEF SetAddress
<1>1. ASSUME NEW p \in Properties, NEW a \in Addresses, CreateProperty(p, a)
      PROVE  RosterInv'
  BY <1>1, <1>a DEF CreateProperty
<1>2. ASSUME NEW p \in Properties, NEW a \in Addresses, UpdateProperty(p, a)
      PROVE  RosterInv'
  BY <1>2, <1>a DEF UpdateProperty
<1>3. ASSUME NEW p \in Properties, DeleteProperty(p) PROVE RosterInv'
  <2> DEFINE ls == {l \in Leases : site[l] = p}
             none == {}
  <2>1. /\ Drop(ls) /\ UNCHANGED <<name, call, ids, raced>>
        /\ roster' = [l \in Leases |->
                        IF l \in ls THEN {} ELSE roster[l] \ none]
    BY <1>3 DEF DeleteProperty
  <2>2. ls \in SUBSET Leases  OBVIOUS
  <2>3. \A t \in Tenants : name'[t] = IF t \in none THEN None ELSE name[t]
    BY <2>1
  <2>4. \A l \in Leases \ ls : primary[l] \notin none  OBVIOUS
  <2>5. UNCHANGED <<usedTenants, usedLeases, raced>>  BY <2>1 DEF ids
  <2>6. Unmoved("remove")
    BY <2>1 DEF Unmoved
  <2> HIDE DEF ls, none
  <2> QED  BY <1>t, <2>1, <2>2, <2>3, <2>4, <2>5, <2>6, DropRoster
<1>4. ASSUME NEW l \in Leases, NEW p \in Properties, NEW t \in Tenants,
             NEW ts \in SUBSET (Tenants \ {t}), CreateLease(l, p, t, ts)
      PROVE  RosterInv'
  <2>1. /\ InsertLease(l, p, t, ts) /\ {t} \cup ts \subseteq LiveTenants
        /\ UNCHANGED <<name, call, usedTenants, raced>>
    BY <1>4 DEF CreateLease
  <2>2. LiveTenants' = LiveTenants /\ LiveTenants \subseteq usedTenants
    BY <2>1 DEF LiveTenants, RosterInv, IdsInv
  <2>3. Unmoved("remove")  BY <2>1 DEF Unmoved
  <2> QED  BY <1>t, <2>1, <2>2, <2>3, InsertLeaseRoster
<1>5. ASSUME NEW l \in Leases, NEW p \in Properties, NEW t \in Tenants,
             NEW ts \in SUBSET (Tenants \ {t}), NEW n \in Names,
             CreateTenantWithLease(t, n, l, p, ts)
      PROVE  RosterInv'
  <2> DEFINE none == {}
  <2>0. none \subseteq Calls  OBVIOUS
  <2>1. /\ t \notin usedTenants /\ ts \subseteq LiveTenants
        /\ name' = [name EXCEPT ![t] = n]
        /\ usedTenants' = usedTenants \cup {t}
        /\ InsertLease(l, p, t, ts)
        /\ call' = [d \in Calls |-> IF d \in none THEN Idle
                                    ELSE Told(call[d], "tenant", t)]
        /\ raced' = raced
    BY <1>5 DEF CreateTenantWithLease
  <2> HIDE DEF none
  <2>2. LiveTenants \subseteq usedTenants
        /\ LiveTenants' \subseteq usedTenants'
    BY <1>t, <2>1 DEF LiveTenants, RosterInv, IdsInv, TypeOK
  <2>3. \A u \in usedTenants : name'[u] = name[u]
    BY <1>t, <2>1 DEF TypeOK
  <2>4. Unmoved("remove")
    BY <1>t, <2>0, <2>1, ToldCalm DEF Kinds
  <2>5. {t} \cup ts \subseteq usedTenants'  BY <2>1, <2>2
  <2> QED  BY <1>t, <2>1, <2>2, <2>3, <2>4, <2>5, InsertLeaseRoster
<1>6. ASSUME NEW l \in Leases, NEW t \in Tenants, AddToLease(l, t)
      PROVE  RosterInv'
  <2>1. /\ t \in LiveTenants
        /\ roster' = [roster EXCEPT ![l] = @ \cup {t}]
        /\ UNCHANGED <<name, site, primary, call, ids, raced>>
    BY <1>6 DEF AddToLease
  <2>2. \A k \in Leases : roster[k] \subseteq roster'[k]
                          /\ roster'[k] \subseteq roster[k] \cup {t}
    BY <1>t, <2>1 DEF TypeOK
  <2>3. IdsInv'
    BY <2>1, <2>2 DEF RosterInv, IdsInv, LiveTenants, LiveLeases, ids
  <2>4. PrimaryOnRoster'
    BY <2>1, <2>2 DEF RosterInv, PrimaryOnRoster, LiveLeases
  <2>5. Calm
    BY <1>t, <2>1, <2>2 DEF Calm, Unmoved, ids, TypeOK
  <2> QED  BY <1>t, <2>3, <2>4, <2>5, CalmKeeps DEF RosterInv
<1>7. ASSUME NEW c \in Calls, NEW a \in Addresses, BeginProperty(c, a)
      PROVE  RosterInv'
  <2>1. Unmoved("remove")
    BY <1>t, <1>7, OpenCalm DEF Kinds, BeginProperty
  <2> QED  BY <1>t, <1>7, <2>1, RowsStay DEF BeginProperty, rows, ids
<1>8. ASSUME NEW c \in Calls, EndProperty(c) PROVE RosterInv'
  <2>1. PICK p \in Properties :
          call' = [d \in Calls |-> IF d \in {c} THEN Idle
                                   ELSE Told(call[d], "property", p)]
    BY <1>8 DEF EndProperty
  <2>2. Unmoved("remove")
    BY <1>t, <2>1, ToldCalm DEF Kinds
  <2> QED  BY <1>t, <1>8, <2>2, RowsStay DEF EndProperty
<1>9. ASSUME NEW c \in Calls, NEW n \in Names, NEW p \in Properties \cup {None},
             BeginTenant(c, n, p)
      PROVE  RosterInv'
  <2>1. Unmoved("remove")
    BY <1>t, <1>9, OpenCalm DEF Kinds, BeginTenant
  <2> QED  BY <1>t, <1>9, <2>1, RowsStay DEF BeginTenant, rows, ids
<1>10. ASSUME NEW c \in Calls, EndTenant(c) PROVE RosterInv'
  <2>1. PICK t \in Tenants \ usedTenants :
          /\ name' = [name EXCEPT ![t] = call[c].key]
          /\ usedTenants' = usedTenants \cup {t}
          /\ call' = [d \in Calls |-> IF d \in {c} THEN Idle
                                      ELSE Told(call[d], "tenant", t)]
          /\ \/ UNCHANGED <<site, primary, roster, usedLeases>>
             \/ /\ call[c].site # None
                /\ \E l \in Leases : InsertLease(l, call[c].site, t, {})
    BY <1>10 DEF EndTenant
  <2>2. raced' = raced  BY <1>10 DEF EndTenant
  <2>3. Unmoved("remove")
    BY <1>t, <2>1, ToldCalm DEF Kinds
  <2>4. LiveTenants' \subseteq usedTenants'
    BY <1>t, <2>1 DEF LiveTenants, RosterInv, IdsInv, TypeOK
  <2>5. \A u \in usedTenants : name'[u] = name[u]
    BY <1>t, <2>1 DEF TypeOK
  <2>6. CASE UNCHANGED <<site, primary, roster, usedLeases>>
    <3>1. IdsInv'
      BY <2>1, <2>4, <2>6 DEF RosterInv, IdsInv, LiveLeases
    <3>2. PrimaryOnRoster'
      BY <2>2, <2>6 DEF RosterInv, PrimaryOnRoster, LiveLeases
    <3>3. Calm  BY <2>1, <2>2, <2>3, <2>5, <2>6 DEF Calm
    <3> QED  BY <1>t, <3>1, <3>2, <3>3, CalmKeeps DEF RosterInv
  <2>7. CASE /\ call[c].site # None
             /\ \E l \in Leases : InsertLease(l, call[c].site, t, {})
    <3>1. call[c].site \in Properties
      BY <1>t, <1>10, <2>7, Fields DEF EndTenant, TypeOK
    <3>2. PICK l \in Leases : InsertLease(l, call[c].site, t, {})
      BY <2>7
    <3>3. {t} \cup {} \subseteq usedTenants'
          /\ usedTenants \subseteq usedTenants'
      BY <2>1
    <3> QED  BY <1>t, <2>2, <2>3, <2>4, <2>5, <3>1, <3>2, <3>3,
                InsertLeaseRoster
  <2> QED  BY <2>1, <2>6, <2>7
<1>11. ASSUME NEW c \in Calls, NEW l \in Leases, NEW t \in Tenants,
              BeginRemove(c, l, t)
       PROVE  RosterInv'
  BY <1>t, <1>11, BeginRemoveRoster
<1>12. ASSUME NEW c \in Calls, EndRemove(c) PROVE RosterInv'
  BY <1>t, <1>12, EndRemoveRoster
<1>13. ASSUME NEW c \in Calls, NEW t \in Tenants, BeginDelete(c, t)
       PROVE  RosterInv'
  <2>1. Unmoved("remove")
    BY <1>t, <1>13, OpenCalm DEF Kinds, BeginDelete
  <2> QED  BY <1>t, <1>13, <2>1, RowsStay DEF BeginDelete, rows, ids
<1>14. ASSUME NEW c \in Calls, EndDelete(c) PROVE RosterInv'
  <2> DEFINE t == call[c].tenant
             ls == call[c].doomed \cup {l \in Leases : primary[l] = t}
  <2>1. t \in Tenants /\ ls \in SUBSET Leases
    BY <1>t, <1>14, Fields DEF EndDelete, TypeOK
  <2>2. /\ name' = [name EXCEPT ![t] = None]
        /\ Drop(ls)
        /\ roster' = [l \in Leases |->
                        IF l \in ls THEN {} ELSE roster[l] \ {t}]
        /\ UNCHANGED <<ids, raced>>
        /\ Close(c)
    BY <1>14 DEF EndDelete
  <2>3. \A l \in Leases \ ls : primary[l] \notin {t}  OBVIOUS
  <2>4. \A u \in Tenants : name'[u] = IF u \in {t} THEN None ELSE name[u]
    BY <1>t, <2>1, <2>2 DEF TypeOK
  <2>5. Unmoved("remove")
    BY <1>t, <2>2, CloseCalm DEF Kinds
  <2> HIDE DEF t, ls
  <2> QED  BY <1>t, <2>1, <2>2, <2>3, <2>4, <2>5, DropRoster DEF ids
<1>15. ASSUME NEW c \in Calls, Fail(c) PROVE RosterInv'
  <2>1. Unmoved("remove")
    BY <1>t, <1>15, CloseCalm DEF Kinds, Fail
  <2> QED  BY <1>t, <1>15, <2>1, RowsStay DEF Fail, rows, ids
<1>16. CASE UNCHANGED vars
  <2>1. Unmoved("remove")  BY <1>16 DEF Unmoved, vars
  <2> QED  BY <1>t, <1>16, <2>1, RowsStay DEF vars, rows, ids
<1> QED
  BY <1>1, <1>2, <1>3, <1>4, <1>5, <1>6, <1>7, <1>8, <1>9, <1>10, <1>11,
     <1>12, <1>13, <1>14, <1>15, <1>16 DEF Next

\* The tenant in a lease's own column is on its roster, unless two removals
\* overlapped on the lease.
THEOREM OnRoster == Spec => []PrimaryOnRoster
<1>1. RosterInv => PrimaryOnRoster  BY DEF RosterInv
<1> QED  BY <1>1, RosterInit, RosterStep, PTL DEF Spec

-----------------------------------------------------------------------------
(* Second records.                                                         *)

\* A creation has been told of all who bear its name.
HeardNames(r) ==
    r.op = "tenant" =>
      \A t \in LiveTenants : name[t] = r.key => t \in r.since

NamesExplained ==
    \A t, u \in LiveTenants : t # u /\ name[t] = name[u] => {t, u} \in excused

NamesInv ==
    /\ TypeOK
    /\ \A c \in Calls : HeardNames(call[c])
    /\ NamesExplained

\* Where no name is given, and no call that gives one begins.
LEMMA NamesStay ==
    ASSUME NamesInv, TypeOK', excused \subseteq excused', Unmoved("tenant"),
           \A t \in Tenants : name'[t] = name[t] \/ name'[t] = None
    PROVE  NamesInv'
<1>1. \A t \in LiveTenants' : t \in LiveTenants /\ name'[t] = name[t]
  BY DEF LiveTenants
<1>2. \A c \in Calls : HeardNames(call[c])'
  BY <1>1 DEF NamesInv, HeardNames, Unmoved
<1>3. NamesExplained'
  BY <1>1 DEF NamesInv, NamesExplained
<1> QED  BY <1>2, <1>3 DEF NamesInv

\* Where one name is given, every creation under way hears of it.
LEMMA NameGiven ==
    ASSUME NamesInv, TypeOK', NEW t \in Tenants, NEW n \in Names,
           NEW e \in SUBSET Calls,
           name' = [name EXCEPT ![t] = n],
           call' = [d \in Calls |-> IF d \in e THEN Idle
                                    ELSE Told(call[d], "tenant", t)],
           excused \subseteq excused',
           \A u \in LiveTenants : u # t /\ name[u] = n => {t, u} \in excused'
    PROVE  NamesInv'
<1>1. /\ name'[t] = n
      /\ \A u \in Tenants : u # t => name'[u] = name[u]
  BY DEF NamesInv, TypeOK
<1>2. ASSUME NEW c \in Calls PROVE HeardNames(call[c])'
  <2>1. CASE c \in e  BY <2>1 DEF HeardNames, Idle
  <2>2. CASE c \notin e
    <3>1. call'[c] = Told(call[c], "tenant", t) /\ call[c] \in Requests
          /\ HeardNames(call[c])
      BY <2>2 DEF NamesInv, TypeOK
    <3>2. CASE call[c].op # "tenant"
      BY <3>1, <3>2, ToldOp DEF HeardNames
    <3>3. CASE call[c].op = "tenant"
      <4>1. call'[c] = [call[c] EXCEPT !.since = @ \cup {t}]
        BY <3>1, <3>3, ToldOp
      <4>2. call[c] \in [op : {"tenant"}, key : Names,
                         site : Properties \cup {None},
                         since : SUBSET Tenants]
        BY <3>1, <3>3 DEF Requests, Idle
      <4>3. call'[c].key = call[c].key
            /\ call'[c].since = call[c].since \cup {t}
        BY <4>1, <4>2
      <4> QED  BY <1>1, <3>1, <3>3, <4>3 DEF HeardNames, LiveTenants
    <3> QED  BY <3>2, <3>3
  <2> QED  BY <2>1, <2>2
<1>3. ASSUME NEW u \in LiveTenants', NEW v \in LiveTenants', u # v,
             name'[u] = name'[v]
      PROVE  {u, v} \in excused'
  <2>1. /\ u \in Tenants /\ v \in Tenants
        /\ u # t => u \in LiveTenants
        /\ v # t => v \in LiveTenants
    BY <1>1 DEF LiveTenants
  <2>2. CASE u # t /\ v # t
    BY <1>1, <1>3, <2>1, <2>2 DEF NamesInv, NamesExplained
  <2>3. CASE u = t  BY <1>1, <1>3, <2>1, <2>3
  <2>4. CASE v = t
    <3>1. {v, u} \in excused'  BY <1>1, <1>3, <2>1, <2>4
    <3>2. {v, u} = {u, v}  OBVIOUS
    <3> QED  BY <3>1, <3>2
  <2> QED  BY <2>2, <2>3, <2>4
<1> QED  BY <1>2, <1>3 DEF NamesInv, NamesExplained

LEMMA NamesInit == Init => NamesInv
<1> SUFFICES ASSUME Init PROVE NamesInv
  OBVIOUS
<1>1. LiveTenants = {}  BY DEF Init, LiveTenants
<1> QED  BY <1>1, TypeInit DEF NamesInv, HeardNames, NamesExplained

LEMMA NamesStep == NamesInv /\ [Next]_vars => NamesInv'
<1> SUFFICES ASSUME NamesInv, [Next]_vars PROVE NamesInv'
  OBVIOUS
<1>t. TypeOK /\ TypeOK'  BY TypeStep DEF NamesInv
<1>k. "tenant" \in Kinds  BY DEF Kinds
<1>u. UNCHANGED <<name, excused>> /\ Unmoved("tenant") => NamesInv'
  BY <1>t, NamesStay
<1>v. UNCHANGED call => Unmoved("tenant")  BY DEF Unmoved
<1>a. ASSUME NEW p \in Properties, NEW a \in Addresses, SetAddress(p, a)
      PROVE  NamesInv'
  <2> DEFINE none == {}
  <2>0. none \subseteq Calls  OBVIOUS
  <2>1. call' = [d \in Calls |-> IF d \in none THEN Idle
                                 ELSE Told(call[d], "property", p)]
    BY <1>a DEF SetAddress
  <2> HIDE DEF none
  <2>2. Unmoved("tenant")  BY <1>t, <1>k, <2>0, <2>1, ToldCalm
  <2> QED  BY <1>a, <1>t, <2>2, NamesStay DEF SetAddress
<1>1. ASSUME NEW p \in Properties, NEW a \in Addresses, CreateProperty(p, a)
      PROVE  NamesInv'
  BY <1>1, <1>a DEF CreateProperty
<1>2. ASSUME NEW p \in Properties, NEW a \in Addresses, UpdateProperty(p, a)
      PROVE  NamesInv'
  BY <1>2, <1>a DEF UpdateProperty
<1>3. ASSUME NEW p \in Properties, DeleteProperty(p) PROVE NamesInv'
  BY <1>3, <1>u, <1>v DEF DeleteProperty
<1>4. ASSUME NEW l \in Leases, NEW p \in Properties, NEW t \in Tenants,
             NEW ts \in SUBSET (Tenants \ {t}), CreateLease(l, p, t, ts)
      PROVE  NamesInv'
  BY <1>4, <1>u, <1>v DEF CreateLease
<1>5. ASSUME NEW l \in Leases, NEW p \in Properties, NEW t \in Tenants,
             NEW ts \in SUBSET (Tenants \ {t}), NEW n \in Names,
             CreateTenantWithLease(t, n, l, p, ts)
      PROVE  NamesInv'
  <2> DEFINE none == {}
  <2>0. none \in SUBSET Calls  OBVIOUS
  <2>1. /\ name' = [name EXCEPT ![t] = n]
        /\ call' = [d \in Calls |-> IF d \in none THEN Idle
                                    ELSE Told(call[d], "tenant", t)]
        /\ excused' = excused \cup Twins(name', t)
    BY <1>5 DEF CreateTenantWithLease
  <2> HIDE DEF none
  <2>2. ASSUME NEW u \in LiveTenants, u # t, name[u] = n
        PROVE  {t, u} \in excused'
    <3>1. /\ DOMAIN name' = Tenants /\ u \in Tenants
          /\ name'[u] = n /\ name'[t] = n
      BY <1>t, <2>1, <2>2 DEF TypeOK, LiveTenants
    <3>2. {t, u} \in Twins(name', t)  BY <2>2, <3>1 DEF Twins
    <3> QED  BY <2>1, <3>2
  <2>3. excused \subseteq excused'  BY <2>1
  <2> QED  BY <1>t, <2>0, <2>1, <2>2, <2>3, NameGiven
<1>6. ASSUME NEW l \in Leases, NEW t \in Tenants, AddToLease(l, t)
      PROVE  NamesInv'
  BY <1>6, <1>u, <1>v DEF AddToLease
<1>7. ASSUME NEW c \in Calls, NEW a \in Addresses, BeginProperty(c, a)
      PROVE  NamesInv'
  <2>1. Unmoved("tenant")
    BY <1>t, <1>k, <1>7, OpenCalm DEF BeginProperty
  <2> QED  BY <1>7, <1>u, <2>1 DEF BeginProperty, rows
<1>8. ASSUME NEW c \in Calls, EndProperty(c) PROVE NamesInv'
  <2>1. PICK p \in Properties :
          /\ call' = [d \in Calls |-> IF d \in {c} THEN Idle
                                      ELSE Told(call[d], "property", p)]
          /\ excused \subseteq excused'
    BY <1>8 DEF EndProperty
  <2>2. Unmoved("tenant")  BY <1>t, <1>k, <2>1, ToldCalm
  <2> QED  BY <1>8, <1>t, <2>1, <2>2, NamesStay DEF EndProperty
<1>9. ASSUME NEW c \in Calls, NEW n \in Names, NEW p \in Properties \cup {None},
             BeginTenant(c, n, p)
      PROVE  NamesInv'
  <2>1. /\ Open(c, [op |-> "tenant", key |-> n, site |-> p, since |-> {}])
        /\ ~NameTaken(n) /\ UNCHANGED <<name, excused>>
    BY <1>9 DEF BeginTenant, rows
  <2>2. ASSUME NEW d \in Calls PROVE HeardNames(call[d])'
    <3>1. CASE d # c
      <4>1. call'[d] = call[d]  BY <1>t, <2>1, <3>1 DEF Open, TypeOK
      <4> QED  BY <2>1, <4>1 DEF NamesInv, HeardNames, LiveTenants
    <3>2. CASE d = c
      <4>1. call'[d] = [op |-> "tenant", key |-> n, site |-> p, since |-> {}]
        BY <1>t, <2>1, <3>2 DEF Open, TypeOK
      <4> QED  BY <2>1, <4>1 DEF HeardNames, NameTaken, LiveTenants
    <3> QED  BY <3>1, <3>2
  <2>3. NamesExplained'
    BY <2>1 DEF NamesInv, NamesExplained, LiveTenants
  <2> QED  BY <1>t, <2>2, <2>3 DEF NamesInv
<1>10. ASSUME NEW c \in Calls, EndTenant(c) PROVE NamesInv'
  <2>a. PICK t \in Tenants :
          /\ name' = [name EXCEPT ![t] = call[c].key]
          /\ call' = [d \in Calls |-> IF d = c THEN Idle
                                      ELSE Told(call[d], "tenant", t)]
          /\ excused' = excused \cup {{t, u} : u \in call[c].since}
    BY <1>10, Zenon DEF EndTenant
  <2>b. \A d \in Calls : d \in {c} <=> d = c  OBVIOUS
  <2>1. /\ name' = [name EXCEPT ![t] = call[c].key]
        /\ call' = [d \in Calls |-> IF d \in {c} THEN Idle
                                    ELSE Told(call[d], "tenant", t)]
        /\ excused' = excused \cup {{t, u} : u \in call[c].since}
    BY <2>a, <2>b
  <2>2. call[c].op = "tenant" /\ call[c].key \in Names
    BY <1>t, <1>10, Fields DEF EndTenant, TypeOK
  <2>3. HeardNames(call[c])  BY DEF NamesInv
  <2>4. \A u \in LiveTenants : u # t /\ name[u] = call[c].key
                                 => {t, u} \in excused'
    BY <2>1, <2>2, <2>3 DEF HeardNames
  <2>5. excused \subseteq excused' /\ {c} \in SUBSET Calls  BY <2>1
  <2> QED  BY <1>t, <2>1, <2>2, <2>4, <2>5, NameGiven
<1>11. ASSUME NEW c \in Calls, NEW l \in Leases, NEW t \in Tenants,
              BeginRemove(c, l, t)
       PROVE  NamesInv'
  <2>1. PICK h :
          Open(c, [op |-> "remove", lease |-> l, tenant |-> t, heir |-> h])
    BY <1>11 DEF BeginRemove
  <2>2. Unmoved("tenant")  BY <1>t, <1>k, <2>1, OpenCalm
  <2> QED  BY <1>11, <1>u, <2>2 DEF BeginRemove, rows
<1>12. ASSUME NEW c \in Calls, EndRemove(c) PROVE NamesInv'
  <2>1. Unmoved("tenant")  BY <1>t, <1>k, <1>12, CloseCalm DEF EndRemove
  <2> QED  BY <1>12, <1>u, <2>1 DEF EndRemove
<1>13. ASSUME NEW c \in Calls, NEW t \in Tenants, BeginDelete(c, t)
       PROVE  NamesInv'
  <2>1. Unmoved("tenant")  BY <1>t, <1>k, <1>13, OpenCalm DEF BeginDelete
  <2> QED  BY <1>13, <1>u, <2>1 DEF BeginDelete, rows
<1>14. ASSUME NEW c \in Calls, EndDelete(c) PROVE NamesInv'
  <2>1. Unmoved("tenant")  BY <1>t, <1>k, <1>14, CloseCalm DEF EndDelete
  <2>2. name' = [name EXCEPT ![call[c].tenant] = None]
        /\ excused' = excused
    BY <1>14 DEF EndDelete
  <2>3. \A u \in Tenants : name'[u] = name[u] \/ name'[u] = None
    BY <1>t, <2>2 DEF TypeOK
  <2> QED  BY <1>t, <2>1, <2>2, <2>3, NamesStay
<1>15. ASSUME NEW c \in Calls, Fail(c) PROVE NamesInv'
  <2>1. Unmoved("tenant")  BY <1>t, <1>k, <1>15, CloseCalm DEF Fail
  <2> QED  BY <1>15, <1>u, <2>1 DEF Fail, rows
<1>16. CASE UNCHANGED vars
  BY <1>16, <1>u, <1>v DEF vars, rows
<1> QED
  BY <1>1, <1>2, <1>3, <1>4, <1>5, <1>6, <1>7, <1>8, <1>9, <1>10, <1>11,
     <1>12, <1>13, <1>14, <1>15, <1>16 DEF Next

\* The same of properties and their addresses.
HeardAddresses(r) ==
    r.op = "property" =>
      \A p \in LiveProperties : address[p] = r.key => p \in r.since

AddressesExplained ==
    \A p, q \in LiveProperties :
      p # q /\ address[p] = address[q] => {p, q} \in excused

AddressesInv ==
    /\ TypeOK
    /\ \A c \in Calls : HeardAddresses(call[c])
    /\ AddressesExplained

LEMMA AddressesStay ==
    ASSUME AddressesInv, TypeOK', excused \subseteq excused',
           Unmoved("property"),
           \A p \in Properties : address'[p] = address[p] \/ address'[p] = None
    PROVE  AddressesInv'
<1>1. \A p \in LiveProperties' :
        p \in LiveProperties /\ address'[p] = address[p]
  BY DEF LiveProperties
<1>2. \A c \in Calls : HeardAddresses(call[c])'
  BY <1>1 DEF AddressesInv, HeardAddresses, Unmoved
<1>3. AddressesExplained'
  BY <1>1 DEF AddressesInv, AddressesExplained
<1> QED  BY <1>2, <1>3 DEF AddressesInv

LEMMA AddressGiven ==
    ASSUME AddressesInv, TypeOK', NEW p \in Properties, NEW a \in Addresses,
           NEW e \in SUBSET Calls,
           address' = [address EXCEPT ![p] = a],
           call' = [d \in Calls |-> IF d \in e THEN Idle
                                    ELSE Told(call[d], "property", p)],
           excused \subseteq excused',
           \A q \in LiveProperties :
             q # p /\ address[q] = a => {p, q} \in excused'
    PROVE  AddressesInv'
<1>1. /\ address'[p] = a
      /\ \A q \in Properties : q # p => address'[q] = address[q]
  BY DEF AddressesInv, TypeOK
<1>2. ASSUME NEW c \in Calls PROVE HeardAddresses(call[c])'
  <2>1. CASE c \in e  BY <2>1 DEF HeardAddresses, Idle
  <2>2. CASE c \notin e
    <3>1. call'[c] = Told(call[c], "property", p) /\ call[c] \in Requests
          /\ HeardAddresses(call[c])
      BY <2>2 DEF AddressesInv, TypeOK
    <3>2. CASE call[c].op # "property"
      BY <3>1, <3>2, ToldOp DEF HeardAddresses
    <3>3. CASE call[c].op = "property"
      <4>1. call'[c] = [call[c] EXCEPT !.since = @ \cup {p}]
        BY <3>1, <3>3, ToldOp
      <4>2. call[c] \in [op : {"property"}, key : Addresses,
                         since : SUBSET Properties]
        BY <3>1, <3>3 DEF Requests, Idle
      <4>3. call'[c].key = call[c].key
            /\ call'[c].since = call[c].since \cup {p}
        BY <4>1, <4>2
      <4> QED  BY <1>1, <3>1, <3>3, <4>3 DEF HeardAddresses, LiveProperties
    <3> QED  BY <3>2, <3>3
  <2> QED  BY <2>1, <2>2
<1>3. ASSUME NEW q \in LiveProperties', NEW r \in LiveProperties', q # r,
             address'[q] = address'[r]
      PROVE  {q, r} \in excused'
  <2>1. /\ q \in Properties /\ r \in Properties
        /\ q # p => q \in LiveProperties
        /\ r # p => r \in LiveProperties
    BY <1>1 DEF LiveProperties
  <2>2. CASE q # p /\ r # p
    BY <1>1, <1>3, <2>1, <2>2 DEF AddressesInv, AddressesExplained
  <2>3. CASE q = p  BY <1>1, <1>3, <2>1, <2>3
  <2>4. CASE r = p
    <3>1. {r, q} \in excused'  BY <1>1, <1>3, <2>1, <2>4
    <3>2. {r, q} = {q, r}  OBVIOUS
    <3> QED  BY <3>1, <3>2
  <2> QED  BY <2>2, <2>3, <2>4
<1> QED  BY <1>2, <1>3 DEF AddressesInv, AddressesExplained

LEMMA AddressesInit == Init => AddressesInv
<1> SUFFICES ASSUME Init PROVE AddressesInv
  OBVIOUS
<1>1. LiveProperties = {}  BY DEF Init, LiveProperties
<1> QED  BY <1>1, TypeInit DEF AddressesInv, HeardAddresses, AddressesExplained

LEMMA AddressesStep == AddressesInv /\ [Next]_vars => AddressesInv'
<1> SUFFICES ASSUME AddressesInv, [Next]_vars PROVE AddressesInv'
  OBVIOUS
<1>t. TypeOK /\ TypeOK'  BY TypeStep DEF AddressesInv
<1>k. "property" \in Kinds  BY DEF Kinds
<1>u. UNCHANGED address /\ excused \subseteq excused' /\ Unmoved("property")
        => AddressesInv'
  BY <1>t, AddressesStay
<1>v. UNCHANGED call => Unmoved("property")  BY DEF Unmoved
<1>a. ASSUME NEW p \in Properties, NEW a \in Addresses, SetAddress(p, a)
      PROVE  AddressesInv'
  <2> DEFINE none == {}
  <2>0. none \in SUBSET Calls  OBVIOUS
  <2>1. /\ address' = [address EXCEPT ![p] = a]
        /\ call' = [d \in Calls |-> IF d \in none THEN Idle
                                    ELSE Told(call[d], "property", p)]
        /\ excused' = excused \cup Twins(address', p)
    BY <1>a DEF SetAddress
  <2> HIDE DEF none
  <2>2. ASSUME NEW q \in LiveProperties, q # p, address[q] = a
        PROVE  {p, q} \in excused'
    <3>1. /\ DOMAIN address' = Properties /\ q \in Properties
          /\ address'[q] = a /\ address'[p] = a
      BY <1>t, <2>1, <2>2 DEF TypeOK, LiveProperties
    <3>2. {p, q} \in Twins(address', p)  BY <2>2, <3>1 DEF Twins
    <3> QED  BY <2>1, <3>2
  <2>3. excused \subseteq excused'  BY <2>1
  <2> QED  BY <1>t, <2>0, <2>1, <2>2, <2>3, AddressGiven
<1>1. ASSUME NEW p \in Properties, NEW a \in Addresses, CreateProperty(p, a)
      PROVE  AddressesInv'
  BY <1>1, <1>a DEF CreateProperty
<1>2. ASSUME NEW p \in Properties, NEW a \in Addresses, UpdateProperty(p, a)
      PROVE  AddressesInv'
  BY <1>2, <1>a DEF UpdateProperty
<1>3. ASSUME NEW p \in Properties, DeleteProperty(p) PROVE AddressesInv'
  <2>1. address' = [address EXCEPT ![p] = None] /\ UNCHANGED <<call, excused>>
    BY <1>3 DEF DeleteProperty
  <2>2. \A q \in Properties : address'[q] = address[q] \/ address'[q] = None
    BY <1>t, <2>1 DEF TypeOK
  <2> QED  BY <1>t, <1>v, <2>1, <2>2, AddressesStay
<1>4. ASSUME NEW l \in Leases, NEW p \in Properties, NEW t \in Tenants,
             NEW ts \in SUBSET (Tenants \ {t}), CreateLease(l, p, t, ts)
      PROVE  AddressesInv'
  BY <1>4, <1>u, <1>v DEF CreateLease
<1>5. ASSUME NEW l \in Leases, NEW p \in Properties, NEW t \in Tenants,
             NEW ts \in SUBSET (Tenants \ {t}), NEW n \in Names,
             CreateTenantWithLease(t, n, l, p, ts)
      PROVE  AddressesInv'
  <2> DEFINE none == {}
  <2>0. none \subseteq Calls  OBVIOUS
  <2>1. call' = [d \in Calls |-> IF d \in none THEN Idle
                                 ELSE Told(call[d], "tenant", t)]
    BY <1>5 DEF CreateTenantWithLease
  <2> HIDE DEF none
  <2>2. Unmoved("property")  BY <1>t, <1>k, <2>0, <2>1, ToldCalm
  <2> QED  BY <1>5, <1>u, <2>2 DEF CreateTenantWithLease
<1>6. ASSUME NEW l \in Leases, NEW t \in Tenants, AddToLease(l, t)
      PROVE  AddressesInv'
  BY <1>6, <1>u, <1>v DEF AddToLease
<1>7. ASSUME NEW c \in Calls, NEW a \in Addresses, BeginProperty(c, a)
      PROVE  AddressesInv'
  <2>1. /\ Open(c, [op |-> "property", key |-> a, since |-> {}])
        /\ ~AddressTaken(a) /\ UNCHANGED <<address, excused>>
    BY <1>7 DEF BeginProperty, rows
  <2>2. ASSUME NEW d \in Calls PROVE HeardAddresses(call[d])'
    <3>1. CASE d # c
      <4>1. call'[d] = call[d]  BY <1>t, <2>1, <3>1 DEF Open, TypeOK
      <4> QED  BY <2>1, <4>1 DEF AddressesInv, HeardAddresses, LiveProperties
    <3>2. CASE d = c
      <4>1. call'[d] = [op |-> "property", key |-> a, since |-> {}]
        BY <1>t, <2>1, <3>2 DEF Open, TypeOK
      <4> QED  BY <2>1, <4>1 DEF HeardAddresses, AddressTaken, LiveProperties
    <3> QED  BY <3>1, <3>2
  <2>3. AddressesExplained'
    BY <2>1 DEF AddressesInv, AddressesExplained, LiveProperties
  <2> QED  BY <1>t, <2>2, <2>3 DEF AddressesInv
<1>8. ASSUME NEW c \in Calls, EndProperty(c) PROVE AddressesInv'
  <2>a. PICK p \in Properties :
          /\ address' = [address EXCEPT ![p] = call[c].key]
          /\ call' = [d \in Calls |-> IF d = c THEN Idle
                                      ELSE Told(call[d], "property", p)]
          /\ excused' = excused \cup {{p, q} : q \in call[c].since}
    BY <1>8, Zenon DEF EndProperty
  <2>b. \A d \in Calls : d \in {c} <=> d = c  OBVIOUS
  <2>1. /\ address' = [address EXCEPT ![p] = call[c].key]
        /\ call' = [d \in Calls |-> IF d \in {c} THEN Idle
                                    ELSE Told(call[d], "property", p)]
        /\ excused' = excused \cup {{p, q} : q \in call[c].since}
    BY <2>a, <2>b
  <2>2. call[c].op = "property" /\ call[c].key \in Addresses
    BY <1>t, <1>8, Fields DEF EndProperty, TypeOK
  <2>3. HeardAddresses(call[c])  BY DEF AddressesInv
  <2>4. \A q \in LiveProperties : q # p /\ address[q] = call[c].key
                                    => {p, q} \in excused'
    BY <2>1, <2>2, <2>3 DEF HeardAddresses
  <2>5. excused \subseteq excused' /\ {c} \in SUBSET Calls  BY <2>1
  <2> QED  BY <1>t, <2>1, <2>2, <2>4, <2>5, AddressGiven
<1>9. ASSUME NEW c \in Calls, NEW n \in Names, NEW p \in Properties \cup {None},
             BeginTenant(c, n, p)
      PROVE  AddressesInv'
  <2>1. Unmoved("property")
    BY <1>t, <1>k, <1>9, OpenCalm DEF BeginTenant
  <2> QED  BY <1>9, <1>u, <2>1 DEF BeginTenant, rows
<1>10. ASSUME NEW c \in Calls, EndTenant(c) PROVE AddressesInv'
  <2>1. PICK t \in Tenants :
          /\ call' = [d \in Calls |-> IF d \in {c} THEN Idle
                                      ELSE Told(call[d], "tenant", t)]
          /\ excused \subseteq excused'
    BY <1>10 DEF EndTenant
  <2>2. Unmoved("property")  BY <1>t, <1>k, <2>1, ToldCalm
  <2> QED  BY <1>10, <1>u, <2>1, <2>2 DEF EndTenant
<1>11. ASSUME NEW c \in Calls, NEW l \in Leases, NEW t \in Tenants,
              BeginRemove(c, l, t)
       PROVE  AddressesInv'
  <2>1. PICK h :
          Open(c, [op |-> "remove", lease |-> l, tenant |-> t, heir |-> h])
    BY <1>11 DEF BeginRemove
  <2>2. Unmoved("property")  BY <1>t, <1>k, <2>1, OpenCalm
  <2> QED  BY <1>11, <1>u, <2>2 DEF BeginRemove, rows
<1>12. ASSUME NEW c \in Calls, EndRemove(c) PROVE AddressesInv'
  <2>1. Unmoved("property")  BY <1>t, <1>k, <1>12, CloseCalm DEF EndRemove
  <2> QED  BY <1>12, <1>u, <2>1 DEF EndRemove
<1>13. ASSUME NEW c \in Calls, NEW t \in Tenants, BeginDelete(c, t)
       PROVE  AddressesInv'
  <2>1. Unmoved("property")  BY <1>t, <1>k, <1>13, OpenCalm DEF BeginDelete
  <2> QED  BY <1>13, <1>u, <2>1 DEF BeginDelete, rows
<1>14. ASSUME NEW c \in Calls, EndDelete(c) PROVE AddressesInv'
  <2>1. Unmoved("property")  BY <1>t, <1>k, <1>14, CloseCalm DEF EndDelete
  <2> QED  BY <1>14, <1>u, <2>1 DEF EndDelete
<1>15. ASSUME NEW c \in Calls, Fail(c) PROVE AddressesInv'
  <2>1. Unmoved("property")  BY <1>t, <1>k, <1>15, CloseCalm DEF Fail
  <2> QED  BY <1>15, <1>u, <2>1 DEF Fail, rows
<1>16. CASE UNCHANGED vars
  BY <1>16, <1>u, <1>v DEF vars, rows
<1> QED
  BY <1>1, <1>2, <1>3, <1>4, <1>5, <1>6, <1>7, <1>8, <1>9, <1>10, <1>11,
     <1>12, <1>13, <1>14, <1>15, <1>16 DEF Next

\* Two tenants of a name, or two properties at an address, come from calls
\* that overlapped or from a manager's entry.
THEOREM Duplicates == Spec => []DuplicatesAreExplained
<1>1. NamesInv /\ AddressesInv => DuplicatesAreExplained
  BY DEF NamesInv, NamesExplained, AddressesInv, AddressesExplained,
         DuplicatesAreExplained
<1> QED  BY <1>1, NamesInit, NamesStep, AddressesInit, AddressesStep, PTL
         DEF Spec
=============================================================================
