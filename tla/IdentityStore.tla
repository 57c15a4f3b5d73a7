--------------------------- MODULE IdentityStore ---------------------------
(***************************************************************************)
(* The identities of companies that are kept between runs: the tables      *)
(* company_identities and company_identity_keys of the database            *)
(* (internal/storage/sqlite_store.go) and the store that takes their place *)
(* without one (internal/runtime/memory_stores.go).  A store maps keys to  *)
(* rows, and lookup keys (alias) to the key of a row.                      *)
(***************************************************************************)
EXTENDS JobIdentity, Functions

\* normalizeCompanyDomainAlias, normalizeCompanyNameAlias: the host as it is, www.
\* apart; None makes no key.
DomainKeys(site) == IF site = None THEN <<>> ELSE <<<<"domain", site.host, site.prefix>>>>
NameKeys(company) == IF company = None THEN <<>> ELSE <<<<"name", company, FALSE>>>>

\* companyIdentityLookupKeysForQuery: the website is looked up first.
QueryKeys(company, site) == DomainKeys(site) \o NameKeys(company)

EmptyStore(memory) == [memory |-> memory, rows |-> <<>>, alias |-> <<>>]

\* getCompanyIdentityByLookupKey
HasRow(store, key) == key \in DOMAIN store.alias /\ store.alias[key] \in DOMAIN store.rows
RowAt(store, key) == store.rows[store.alias[key]]

\* GetCompanyIdentity
Lookup(store, company, site) ==
    LET keys == QueryKeys(company, site)
        hit == SelectInSeq(keys, LAMBDA key : HasRow(store, key))
    IN  IF hit = 0 THEN None ELSE RowAt(store, keys[hit])

\* The function with this value at these keys.
Written(f, keys, value) == [a \in keys \cup DOMAIN f |-> IF a \in keys THEN value ELSE f[a]]

\* UpsertCompanyIdentity: the row of the domain, or else of the name, is replaced and
\* its aliases with it; an alias of another row is taken over.
\* The store in memory has the row once for every key.
Saved(store, company, record) ==
    LET keys == QueryKeys(company, record.website)
        key == Head(keys)
        freed == Restrict(store.alias, {a \in DOMAIN store.alias : store.alias[a] # key})
        all == Range(keys)
        own == [a \in all \cup DOMAIN store.alias |-> IF a \in all THEN a ELSE store.alias[a]]
    IN  IF store.memory
        THEN [store EXCEPT !.rows = Written(@, all, record), !.alias = own]
        ELSE [store EXCEPT !.rows = Written(@, {key}, record), !.alias = Written(freed, all, key)]

=============================================================================
