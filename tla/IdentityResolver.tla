-------------------------- MODULE IdentityResolver --------------------------
(***************************************************************************)
(* Identity resolution (crates/correlator/src/identity.rs).                *)
(*                                                                         *)
(* An event names its actor by up to four aliases: a user, a session, a    *)
(* container and an IP.  Aliases of one event belong to one canonical      *)
(* entity; an event that names aliases of several entities merges them.  A *)
(* blank identifier is no alias, but a blank user id is a user id: user    *)
(* says that the event has one, blank or not.                              *)
(* Aliases are numbered in the alphabetical order of their keys            *)
(* ("container:..", "ip:..", "session:..", "user:.."), and an entity's id  *)
(* is the alias it was founded on, or the application when an event has no *)
(* alias at all.  The risk score, which nothing sets, is left out.         *)
(***************************************************************************)
EXTENDS Integers, FiniteSetsExt, Sums

CONSTANTS
  KindOf,   \* alias -> its kind
  App

Alias == DOMAIN KindOf
Kinds == <<"host", "session", "workload", "user">>
EntityType == {"host", "session", "workload", "user"}

ASSUME IdentityAssumption == Alias \subseteq Nat /\ \A a \in Alias : KindOf[a] \in EntityType

VARIABLES
  canonical,  \* alias_to_canonical
  entities    \* id -> [type, aliases, apps, capabilities, count, first, last]

identityVars == <<canonical, entities>>

IdentityInit == canonical = <<>> /\ entities = <<>>

Strength(type) == CHOOSE i \in DOMAIN Kinds : Kinds[i] = type

\* The first of these ids whose entity is of the strongest type.
Strongest(ids) ==
  CHOOSE id \in ids : \A other \in ids :
    LET x == Strength(entities[id].type)
        y == Strength(entities[other].type)
    IN  x > y \/ (x = y /\ id <= other)

\* The alias a new entity is founded on.
Founder(aliases) ==
  CHOOSE a \in aliases : \A b \in aliases : Strength(KindOf[a]) >= Strength(KindOf[b])

\* The entities that the event's aliases belong to so far.
Matched(aliases) == {canonical[a] : a \in aliases \cap DOMAIN canonical}

\* The canonical id an event resolves to.
Resolve(event) ==
  IF event.aliases = {} THEN event.app
  ELSE IF Matched(event.aliases) = {} THEN Founder(event.aliases)
  ELSE Strongest(Matched(event.aliases))

\* Matched entities that are merged into another one.
Absorbed(event) == Matched(event.aliases) \ {Resolve(event)}

\* CanonicalEntity::new at the server's time now: seen last by the server's
\* clock, and first by the event's if the event has an alias.
NewEntity(id, event, now) ==
  [type |-> IF event.aliases = {} THEN "host" ELSE KindOf[id], aliases |-> {}, apps |-> {},
   capabilities |-> {}, count |-> 0,
   first |-> IF event.aliases = {} THEN now ELSE event.ts, last |-> now]

CountOf(ids) == SumOver([i \in ids |-> entities[i].count], ids)

Merged_KeepsOwnSights(entity, ids) ==
  [entity EXCEPT !.aliases = @ \cup UNION {entities[i].aliases : i \in ids},
                 !.apps = @ \cup UNION {entities[i].apps : i \in ids},
                 !.capabilities = @ \cup UNION {entities[i].capabilities : i \in ids},
                 !.count = @ + CountOf(ids)]

\* CanonicalEntity::merge, of all absorbed entities.
Merged(entity, ids) ==
  [entity EXCEPT !.aliases = @ \cup UNION {entities[i].aliases : i \in ids},
                 !.apps = @ \cup UNION {entities[i].apps : i \in ids},
                 !.capabilities = @ \cup UNION {entities[i].capabilities : i \in ids},
                 !.count = @ + CountOf(ids),
                 !.first = Min({@} \cup {entities[i].first : i \in ids}),
                 !.last = Max({@} \cup {entities[i].last : i \in ids})]

\* The entity with what the event says of it; a user id, blank or not, makes it a
\* user if the event has an alias.
Updated(entity, event) ==
  [entity EXCEPT !.aliases = @ \cup event.aliases,
                 !.apps = @ \cup {event.app},
                 !.count = @ + 1,
                 !.last = IF event.aliases = {} THEN event.ts ELSE Max({@, event.ts}),
                 !.type = IF event.aliases # {} /\ event.user THEN "user" ELSE @]

Redirected_EventOnly(event) ==
  [a \in DOMAIN canonical \cup event.aliases |->
     IF a \in event.aliases THEN Resolve(event) ELSE canonical[a]]

\* Every alias of an absorbed entity, and of the event, leads to the entity.
Redirected(event) ==
  [a \in DOMAIN canonical \cup event.aliases |->
     IF a \in event.aliases \/ canonical[a] \in Absorbed(event) THEN Resolve(event) ELSE canonical[a]]

EntitiesAfter_DropsAbsorbed(event, now) ==
  LET id == Resolve(event)
      known == IF id \in DOMAIN entities THEN entities[id] ELSE NewEntity(id, event, now)
  IN  [i \in (DOMAIN entities \ Absorbed(event)) \cup {id} |->
         IF i = id THEN Updated(known, event) ELSE entities[i]]

\* The entities after resolve_and_update.
EntitiesAfter(event, now) ==
  LET id == Resolve(event)
      known == IF id \in DOMAIN entities THEN entities[id] ELSE NewEntity(id, event, now)
  IN  [i \in (DOMAIN entities \ Absorbed(event)) \cup {id} |->
         IF i = id THEN Updated(Merged(known, Absorbed(event)), event) ELSE entities[i]]
=============================================================================
