--------------------------- MODULE TenantResolver ---------------------------
(***************************************************************************)
(* tenant-resolver: which tenant a request is for, and the default tenant, *)
(* which is looked up in two ways and created if neither finds it, by      *)
(* several processes at once and through a store that may reject.          *)
(***************************************************************************)
EXTENDS Naturals, Sequences

CONSTANTS Deployment, \* whether adminEmail is set, its slug is 'admin', and the store's slugs are unique
          Resolver,   \* processes, each with a resolver and its cache
          Call,       \* getTenantId calls that may be under way at once
          MaxTenants  \* bound on the default tenants

VARIABLES deployment,
          tenants,    \* the default tenants, each with what its creation had missed
          own,        \* what the store has of the user: a row, its tenant_id, a tenant by owner or domain
          cached,     \* cachedDefaultTenantId; 0 is null
          call,
          answer      \* what the last call that ended has returned

tenantVars == <<deployment, tenants, own, cached, call, answer>>

Links == {"tenantId", "owner", "domain"}
NoCall == [pc |-> "idle"]

TypeOK ==
  /\ deployment \in Deployment
  /\ tenants \in Seq([overtaken : BOOLEAN, failed : BOOLEAN])
  /\ own \subseteq Links \cup {"row"}
  /\ cached \in [Resolver -> 0 .. Len(tenants)]
  /\ \A c \in Call :
       call[c] = NoCall
       \/ /\ call[c].pc \in {"member", "exact", "domain", "owner", "slug", "create", "retry"}
          /\ call[c].resolver \in Resolver /\ call[c].due \in BOOLEAN
          /\ call[c].overtaken \in BOOLEAN /\ call[c].failed \in BOOLEAN
  /\ answer \in [tenant : {"none", "own", "default"}, due : BOOLEAN, failed : BOOLEAN]

Init ==
  /\ deployment \in Deployment
  /\ tenants = <<>>
  /\ own \in {{}, {"row", "owner"}, {"row", "domain"}}
  /\ cached = [r \in Resolver |-> 0]
  /\ call = [c \in Call |-> NoCall]
  /\ answer = [tenant |-> "default", due |-> FALSE, failed |-> FALSE]

\* The call ends, or goes on from where x is.
Ends(c, x, t) ==
  /\ answer' = [tenant |-> t, due |-> x.due, failed |-> x.failed]
  /\ call' = [call EXCEPT ![c] = NoCall]

At(c, x, pc) == call' = [call EXCEPT ![c] = [x EXCEPT !.pc = pc]] /\ UNCHANGED answer

\* Mutant of DefaultTenant: by slug only.
DefaultTenantBySlug(c, x) ==
  IF cached[x.resolver] # 0 THEN Ends(c, x, "default") ELSE At(c, x, "slug")

\* getOrCreateDefaultTenant up to its first await.
DefaultTenant(c, x) ==
  IF cached[x.resolver] # 0 THEN Ends(c, x, "default")
  ELSE At(c, x, IF deployment.email THEN "owner" ELSE "slug")

\* due: the user had a tenant of their own at the start, and no rejected lookup hides it.
GetTenantId(c, r) ==
  /\ call[c] = NoCall
  /\ LET x == [pc |-> "member", resolver |-> r, due |-> FALSE, failed |-> FALSE, overtaken |-> FALSE]
     IN DefaultTenant(c, x) \/ At(c, [x EXCEPT !.due = "row" \in own /\ own \cap Links # {}], "member")
  /\ UNCHANGED <<deployment, tenants, own, cached>>

\* Mutant of MemberFound: a row without a tenant_id is answered with the default tenant.
MemberFoundUnlinked(c) ==
  /\ call[c].pc = "member"
  /\ IF "tenantId" \in own THEN Ends(c, call[c], "own") ELSE DefaultTenant(c, call[c])

MemberFound(c) ==
  /\ call[c].pc = "member"
  /\ IF "row" \notin own THEN DefaultTenant(c, call[c])
     ELSE IF "tenantId" \in own THEN Ends(c, call[c], "own") ELSE At(c, call[c], "exact")

ExactFound(c) ==
  /\ call[c].pc = "exact"
  /\ IF "owner" \in own THEN Ends(c, call[c], "own") ELSE At(c, call[c], "domain")

DomainFound(c) ==
  /\ call[c].pc = "domain"
  /\ IF "domain" \in own THEN Ends(c, call[c], "own") ELSE DefaultTenant(c, call[c])

LookUpUser(c) ==
  /\ MemberFound(c) \/ ExactFound(c) \/ DomainFound(c)
  /\ UNCHANGED <<deployment, tenants, own, cached>>

\* A rejected lookup is a lookup that found nothing.
LookupRejects(c) ==
  /\ \/ call[c].pc = "member" /\ DefaultTenant(c, [call[c] EXCEPT !.due = FALSE])
     \/ call[c].pc = "exact" /\ At(c, [call[c] EXCEPT !.due = @ /\ "domain" \in own], "domain")
     \/ call[c].pc = "domain" /\ DefaultTenant(c, [call[c] EXCEPT !.due = FALSE])
  /\ UNCHANGED <<deployment, tenants, own, cached>>

\* The owner, and the slug 'admin', find any of the default tenants they fit.
Finds(c, i) ==
  /\ call[c].pc = "owner" \/ (call[c].pc \in {"slug", "retry"} /\ deployment.slugIsAdmin)
  /\ i \in DOMAIN tenants
  /\ cached' = [cached EXCEPT ![call[c].resolver] = i]
  /\ Ends(c, call[c], "default")
  /\ UNCHANGED <<deployment, tenants, own>>

Past(c, x) ==
  \/ x.pc = "owner" /\ At(c, x, "slug")
  \/ x.pc = "slug" /\ At(c, x, "create")
  \/ x.pc = "retry" /\ Ends(c, x, "none")

FindsNone(c) ==
  /\ tenants = <<>> \/ (call[c].pc # "owner" /\ ~deployment.slugIsAdmin)
  /\ Past(c, call[c])
  /\ UNCHANGED <<deployment, tenants, own, cached>>

FindRejects(c) ==
  /\ call[c] # NoCall /\ Past(c, [call[c] EXCEPT !.failed = TRUE])
  /\ UNCHANGED <<deployment, tenants, own, cached>>

Taken == deployment.unique /\ tenants # <<>>

\* A default tenant appears; calls that are past a lookup have missed it.
Insert(c) ==
  /\ ~Taken /\ Len(tenants) < MaxTenants
  /\ tenants' = Append(tenants, [overtaken |-> call[c].overtaken, failed |-> call[c].failed])

Missed(c) ==
  [o \in Call |-> IF o # c /\ call[o].pc \in {"slug", "create"} THEN [call[o] EXCEPT !.overtaken = TRUE] ELSE call[o]]

Create(c) ==
  /\ call[c].pc = "create" /\ Insert(c)
  /\ cached' = [cached EXCEPT ![call[c].resolver] = Len(tenants')]
  /\ answer' = [tenant |-> "default", due |-> call[c].due, failed |-> call[c].failed]
  /\ call' = [Missed(c) EXCEPT ![c] = NoCall]
  /\ UNCHANGED <<deployment, own>>

\* Mutant of CreateRefused: without the second look.
CreateRefusedAtOnce(c) ==
  /\ call[c].pc = "create" /\ Taken
  /\ Ends(c, call[c], "none")
  /\ UNCHANGED <<deployment, tenants, own, cached>>

CreateRefused(c) ==
  /\ call[c].pc = "create" /\ Taken
  /\ At(c, call[c], "retry")
  /\ UNCHANGED <<deployment, tenants, own, cached>>

\* The tenant may have been created all the same.
CreateRejects(c) ==
  /\ call[c].pc = "create"
  /\ LET x == [call[c] EXCEPT !.pc = "retry", !.failed = TRUE]
     IN \/ UNCHANGED tenants /\ call' = [call EXCEPT ![c] = x]
        \/ Insert(c) /\ call' = [Missed(c) EXCEPT ![c] = x]
  /\ UNCHANGED <<deployment, own, cached, answer>>

\* The process starts anew.
Restart(r) ==
  /\ cached' = [cached EXCEPT ![r] = 0]
  /\ call' = [c \in Call |-> IF call[c] # NoCall /\ call[c].resolver = r THEN NoCall ELSE call[c]]
  /\ UNCHANGED <<deployment, tenants, own, answer>>

\* The user is made a member, or is linked to a tenant.
LinkUser(k) ==
  /\ k \in {"row", "tenantId"} \ own /\ ("row" \in own \/ k = "row")
  /\ own' = own \cup {k}
  /\ UNCHANGED <<deployment, tenants, cached, call, answer>>

Next ==
  \/ \E k \in {"row", "tenantId"} : LinkUser(k)
  \/ \E r \in Resolver : Restart(r) \/ \E c \in Call : GetTenantId(c, r)
  \/ \E c \in Call : \/ LookUpUser(c) \/ LookupRejects(c) \/ FindsNone(c) \/ FindRejects(c)
                     \/ Create(c) \/ CreateRefused(c) \/ CreateRejects(c)
                     \/ \E i \in DOMAIN tenants : Finds(c, i)

-----------------------------------------------------------------------------
\* A second default tenant is only created by a call that had a store call of its own
\* rejected, or past whose lookups another call has created one.
SecondDefaultOnlyCrossed ==
  \A i \in DOMAIN tenants : i > 1 => tenants[i].overtaken \/ tenants[i].failed

\* A member with a tenant of their own is answered with the default tenant only if the
\* lookup that would have found theirs was rejected ("so we don't silently fall
\* through to the default and trap legitimate users on the wrong tenant",
\* tenant-resolver.ts).
MembersGetTheirTenant ==
  answer.tenant # "own" => ~answer.due

\* A call ends without any tenant only if the store rejected, or if it lost the race for
\* a tenant whose slug is not the one it looks for again.
UnresolvedOnlyOnFailure ==
  answer.tenant = "none" => answer.failed \/ ~deployment.slugIsAdmin
=============================================================================
