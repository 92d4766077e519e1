------------------------------ MODULE DayClients ------------------------------
(***************************************************************************)
(* The deals of a day taken for clients (bezkvalClients): whoever shares a *)
(* number or a contact is one client, and a client is new unless somebody  *)
(* with one of its numbers had a deal before the day (historyIndex,        *)
(* novelty).                                                               *)
(*                                                                         *)
(* Contacts, deals and number keys are themselves the keys "c:", "d:" and  *)
(* "p:", in this order.  A deal is listed once, at its first entry, and    *)
(* which of a client's deals is the main one is left out.                  *)
(***************************************************************************)
EXTENDS Integers, FiniteSets, FiniteSetsExt

CONSTANTS
  DayContacts,
  DayDeals,
  NumberKeys,   \* What phoneKey makes of the numbers.
  TailOf        \* phoneTail

ASSUME ClientAssumption ==
  /\ DayContacts \cup DayDeals \cup NumberKeys \subseteq Nat \ {0}
  /\ IsFiniteSet(DayContacts \cup DayDeals \cup NumberKeys)
  /\ \A c \in DayContacts, d \in DayDeals : c < d
  /\ \A c \in DayContacts \cup DayDeals, p \in NumberKeys : c < p
  /\ DOMAIN TailOf = NumberKeys

NoKey == 0
Ages == {"none", "old", "t30"}   \* How long before the day a deal was made.

VARIABLES
  contactOf,   \* contactOf[d], or NoKey.
  numbersOf,   \* numbersOf[c]
  ownNumber,   \* ownNumber[d]: its "Telefon raqam", or NoKey.
  earlier,     \* earlier[c]: the latest deal before the day.
  untied,      \* The deals not yet tied together.
  parent,      \* The forest of keys.
  clients      \* [deals, key, phones, contactIds, status]

clientVars == <<contactOf, numbersOf, ownNumber, earlier, untied, parent, clients>>

ClientsInit ==
  /\ contactOf \in [DayDeals -> DayContacts \cup {NoKey}]
  /\ numbersOf \in [DayContacts -> SUBSET NumberKeys]
  /\ ownNumber \in [DayDeals -> NumberKeys \cup {NoKey}]
  /\ earlier = [c \in DayContacts |-> "none"]
  /\ untied = DayDeals /\ parent = [k \in {} |-> k] /\ clients = {}

-------------------------------------------------------------------------------
(* Keys. *)

ContactSet(d) == {contactOf[d]} \ {NoKey}
NumberSet(d) == (UNION {numbersOf[c] : c \in ContactSet(d)}) \cup ({ownNumber[d]} \ {NoKey})

\* dealKeys: its numbers, without any its contact, without one itself.
DealKeys(d) ==
  IF NumberSet(d) # {} THEN NumberSet(d)
  ELSE IF ContactSet(d) # {} THEN ContactSet(d) ELSE {d}

Ties(d) == DealKeys(d) \cup ContactSet(d)

-------------------------------------------------------------------------------
(* Union and find. *)

\* A parent is a smaller key.
Root(forest, key) ==
  LET root[k \in DOMAIN forest] == IF forest[k] = k THEN k ELSE root[forest[k]]
  IN  root[key]

\* find: every key on the way points at the root.
Find(forest, key) ==
  LET onWay[k \in DOMAIN forest] == k = key \/ \E j \in DOMAIN forest : j > k /\ forest[j] = k /\ onWay[j]
  IN  [k \in DOMAIN forest |-> IF onWay[k] THEN Root(forest, key) ELSE forest[k]]

\* add
Add(forest, keys) == [k \in DOMAIN forest \cup keys |-> IF k \in DOMAIN forest THEN forest[k] ELSE k]

\* Mutant: the larger key is hung under the smaller, its root left behind.
UnionOfKeys(forest, a, b) == [forest EXCEPT ![Max({a, b})] = Min({a, b})]

Union(forest, a, b) ==
  LET found == Find(Find(forest, a), b)
      ra == Root(forest, a)
      rb == Root(forest, b)
  IN  IF ra = rb THEN found ELSE [found EXCEPT ![Max({ra, rb})] = Min({ra, rb})]

\* One deal's keys, in whatever order the deals come.
Tie(d) ==
  /\ d \in untied /\ untied' = untied \ {d}
  /\ parent' = FoldSet(LAMBDA key, forest : Union(forest, Min(DealKeys(d)), key),
                       Add(parent, Ties(d)), Ties(d) \ {Min(DealKeys(d))})
  /\ UNCHANGED <<contactOf, numbersOf, ownNumber, earlier, clients>>

-------------------------------------------------------------------------------
(* Clients. *)

RootOf(d) == Root(parent, Min(DealKeys(d)))
Together(deals) == [
  deals |-> deals,
  phones |-> UNION {NumberSet(d) : d \in deals},
  contactIds |-> UNION {ContactSet(d) : d \in deals},
  key |-> IF \A d \in deals : NumberSet(d) = {} THEN Min(UNION {DealKeys(d) : d \in deals})
          ELSE Min(UNION {NumberSet(d) : d \in deals}),
  status |-> "new"]

Group ==
  /\ untied = {} /\ clients = {}
  /\ clients' = {Together({e \in DayDeals : RootOf(e) = RootOf(d)}) : d \in DayDeals}
  /\ UNCHANGED <<contactOf, numbersOf, ownNumber, earlier, untied, parent>>

-------------------------------------------------------------------------------
(* New or repeat. *)

\* computeBezkvalDay, bezkvalHistorySql: the contacts with an earlier deal
\* found by the tails of the clients' numbers, or, of clients without one, by
\* themselves.
Tails == {TailOf[p] : p \in UNION {c.phones : c \in clients}}
Numberless == UNION {c.contactIds : c \in {k \in clients : k.phones = {}}}
Owners == {c \in DayContacts :
  c \in Numberless \/ \E p \in numbersOf[c] : TailOf[p] \in Tails}

\* historyIndex and novelty: the exact numbers, and the newest deal behind any.
Behind(client) == {c \in Owners : c \in client.contactIds \/ numbersOf[c] \cap client.phones # {}}
Newest(ages) ==
  IF "t30" \in ages THEN "t30" ELSE IF "old" \in ages THEN "old" ELSE "new"
Novelty(client, before) == Newest({before[c] : c \in Behind(client)})

Look ==
  /\ clients # {} /\ \A c \in DayContacts : earlier[c] = "none"
  /\ earlier' \in [DayContacts -> Ages]
  /\ clients' = {[client EXCEPT !.status = Novelty(client, earlier')] : client \in clients}
  /\ UNCHANGED <<contactOf, numbersOf, ownNumber, untied, parent>>

ClientsNext == (\E d \in DayDeals : Tie(d)) \/ Group \/ Look

ClientsSpec == ClientsInit /\ [][ClientsNext]_clientVars

-------------------------------------------------------------------------------
(* Properties. *)

ForestIsOrdered == \A k \in DOMAIN parent : parent[k] \in DOMAIN parent /\ parent[k] <= k

Apart(some, others) == \A d \in some, e \in others :
  NumberSet(d) \cap NumberSet(e) = {} /\ ContactSet(d) \cap ContactSet(e) = {}

OnePerson(deals) ==
  /\ Apart(deals, DayDeals \ deals)
  /\ \A some \in (SUBSET deals) \ {{}, deals} : ~Apart(some, deals \ some)

\* Whose deals before the day are the client's.
Same(client) ==
  {c \in DayContacts : IF client.phones = {} THEN c \in client.contactIds
                       ELSE numbersOf[c] \cap client.phones # {}}

(***************************************************************************)
(* A client is everybody linked by numbers and contacts and nobody else,   *)
(* whatever the order of the deals; no two clients of a day have one key   *)
(* (bezkval_client's primary key, or the day could never be stored); and   *)
(* one called new or old has no later deal under any of its numbers, while *)
(* a foreign number never stands for the local one it ends in.             *)
(***************************************************************************)
ClientsAreThePeople ==
  clients # {} =>
    /\ UNION {client.deals : client \in clients} = DayDeals
    /\ \A client \in clients : OnePerson(client.deals)
    /\ \A one, other \in clients :
         one # other => one.key # other.key /\ one.deals \cap other.deals = {}
    /\ \A client \in clients : client.status = Newest({earlier[c] : c \in Same(client)})

===============================================================================
