------------------------------ MODULE Categories ------------------------------
(***************************************************************************)
(* The tree of categories: the built-in ones, which a user can hide, and   *)
(* those a user creates, moves, deletes and brings back                    *)
(* (backend/app/api/routers/categories.py, backend/app/services/           *)
(* taxonomy.py), the limits of the free plan on them                       *)
(* (backend/app/services/billing/category_usage.py), what an export and an *)
(* import make of them (backend/app/api/routers/data.py), and the ones the *)
(* worker files a receipt under (backend/app/worker/receipt_processor.py). *)
(*                                                                         *)
(* No handler of these routes awaits anything after its first read, so a   *)
(* request is one step of the API process.  Files to import are those that *)
(* an export wrote, in this account or in another, at any earlier time.    *)
(***************************************************************************)
EXTENDS FiniteSets, Naturals

CONSTANTS
    Users,
    Ids,       \* ids of users' categories
    Codes,     \* codes of users' categories
    Tops,      \* built-in top-level ITEM categories
    Subs,      \* built-in ITEM categories below one of Tops
    ParentOf,  \* the parent of each of Subs
    CodeOf,    \* their codes
    Worker,    \* the TRANSACTION category with the code of each of Tops
    Limit,     \* FREE_PLAN_CUSTOM_CATEGORY_LIMIT
    SubLimit,  \* FREE_PLAN_CUSTOM_SUBCATEGORY_LIMIT
    None

\* What is taken of the constants; the instance for TLC assumes it.
LimitsAssumption == Limit \in Nat /\ SubLimit \in Nat
BuiltinAssumption ==
    /\ ParentOf \in [Subs -> Tops] /\ Tops \cap Subs = {}
    /\ \A s, t \in Tops \cup Subs : CodeOf[s] = CodeOf[t] => s = t
    /\ \A t \in Tops : Worker[t] \notin Tops \cup Subs
    /\ \A s, t \in Tops : Worker[s] = Worker[t] => s = t
    /\ (Tops \cup Subs) \cap Ids = {} /\ None \notin Ids \cup Tops \cup Subs
IdsAssumption == IsFiniteSet(Ids) /\ None \notin Users

VARIABLES
    cats,      \* categories with a user, by id
    hidden,    \* user_hidden_categories of each user
    premium,   \* the users with premium.categories.unlimited
    file,      \* what an export wrote last
    imported   \* history: users that have imported a file

vars == <<cats, hidden, premium, file, imported>>

-----------------------------------------------------------------------------
Builtins == Tops \cup Subs \cup {Worker[t] : t \in Tops}
Parents == Ids \cup Tops \cup Subs \cup {None}
Row == [owner : Users, code : Codes, parent : Parents, active : BOOLEAN, custom : BOOLEAN]
Entry == [id : Ids, code : Codes, parent : Parents, active : BOOLEAN]

TypeOK ==
    /\ DOMAIN cats \subseteq Ids
    /\ \A c \in DOMAIN cats : cats[c] \in Row
    /\ \A c, d \in DOMAIN cats :
        cats[c].owner = cats[d].owner /\ cats[c].code = cats[d].code => c = d
    /\ hidden \in [Users -> SUBSET Builtins]
    /\ premium \subseteq Users
    /\ file \subseteq Entry
    /\ imported \subseteq Users

Init ==
    /\ cats = [c \in {} |-> None]
    /\ hidden = [u \in Users |-> {}]
    /\ premium \in SUBSET Users
    /\ file = {}
    /\ imported = {}

-----------------------------------------------------------------------------
(* Helpers.                                                                *)

Own(u) == {c \in DOMAIN cats : cats[c].owner = u}
WithCode(u, code) == {c \in Own(u) : cats[c].code = code}
Fresh == Ids \ DOMAIN cats

\* The id of a new category; which of them is of no account.
NewId == IF Fresh = {} THEN {} ELSE {CHOOSE c \in Fresh : TRUE}

Store(c, row) ==
    cats' = [d \in DOMAIN cats \cup {c} |-> IF d = c THEN row ELSE cats[d]]

\* A slip: a category below another one can be a parent.
AnyParent(u, p) ==
    \/ p = None
    \/ p \in Tops \ hidden[u]
    \/ p \in Own(u) /\ cats[p].active

\* _resolve_parent_or_400, or no parent.
MayBeParent(u, p) ==
    \/ p = None
    \/ p \in Tops \ hidden[u]
    \/ p \in Own(u) /\ cats[p].active /\ cats[p].parent = None

\* count_user_active_custom_categories, on the level of a category below p.
Used(u, p) ==
    Cardinality({c \in Own(u) : /\ cats[c].custom /\ cats[c].active
                                /\ (cats[c].parent = None) = (p = None)})

\* _assert_can_activate_custom_category.
MayActivate(u, p) == u \in premium \/ Used(u, p) < (IF p = None THEN Limit ELSE SubLimit)

\* A slip: the category that only the worker uses is forgotten.
HiddenItems(b) == IF b \in Tops THEN {b} \cup {s \in Subs : ParentOf[s] = b} ELSE {b}

\* collect_disable_target_ids.
HiddenWith(b) == IF b \in Tops THEN {b, Worker[b]} \cup {s \in Subs : ParentOf[s] = b} ELSE {b}

-----------------------------------------------------------------------------
(* The routes of the categories.                                           *)

\* A slip: a category that was deleted is not looked for.
CreateSecond(u, code, p) ==
    /\ MayBeParent(u, p) /\ MayActivate(u, p)
    /\ \A c \in WithCode(u, code) : ~cats[c].active
    /\ \E c \in NewId :
        Store(c, [owner |-> u, code |-> code, parent |-> p, active |-> TRUE, custom |-> TRUE])
    /\ UNCHANGED <<hidden, premium, file, imported>>

\* A slip: a category that was deleted is brought back without a look at the limit.
CreateUnlimited(u, code, p) ==
    /\ MayBeParent(u, p)
    /\ \E c \in NewId \cup WithCode(u, code) :
        /\ IF c \in Fresh THEN WithCode(u, code) = {} /\ MayActivate(u, p) ELSE ~cats[c].active
        /\ Store(c, [owner |-> u, code |-> code, parent |-> p, active |-> TRUE, custom |-> TRUE])
    /\ UNCHANGED <<hidden, premium, file, imported>>

\* A deleted category with this code comes back; an active one is a conflict.
Create(u, code, p) ==
    /\ MayBeParent(u, p) /\ MayActivate(u, p)
    /\ \E c \in NewId \cup WithCode(u, code) :
        /\ IF c \in Fresh THEN WithCode(u, code) = {} ELSE ~cats[c].active
        /\ Store(c, [owner |-> u, code |-> code, parent |-> p, active |-> TRUE, custom |-> TRUE])
    /\ UNCHANGED <<hidden, premium, file, imported>>

\* Only a change of level is held against the limit.
Update(u, c, p) ==
    /\ c \in Own(u) /\ p # c
    /\ MayBeParent(u, p)
    /\ cats[c].active /\ (cats[c].parent = None) # (p = None) => MayActivate(u, p)
    /\ Store(c, [cats[c] EXCEPT !.parent = p])
    /\ UNCHANGED <<hidden, premium, file, imported>>

Delete(u, c) ==
    /\ c \in Own(u)
    /\ ~\E d \in DOMAIN cats : cats[d].parent = c /\ cats[d].active
    /\ Store(c, [cats[c] EXCEPT !.active = FALSE])
    /\ UNCHANGED <<hidden, premium, file, imported>>

\* delete_category on a built-in one: disable_category_ids_for_user.
Hide(u, b) ==
    /\ b \in Tops \cup Subs
    /\ hidden' = [hidden EXCEPT ![u] = @ \cup HiddenWith(b)]
    /\ UNCHANGED <<cats, premium, file, imported>>

\* restore_category: nothing to restore is answered with 404.
Restore(u, b) ==
    /\ b \in Tops \cup Subs
    /\ HiddenWith(b) \cap hidden[u] # {}
    /\ hidden' = [hidden EXCEPT ![u] = @ \ HiddenWith(b)]
    /\ UNCHANGED <<cats, premium, file, imported>>

-----------------------------------------------------------------------------
(* Export and import, of the categories.                                   *)

Exported(u) ==
    {[id |-> c, code |-> cats[c].code, parent |-> cats[c].parent, active |-> cats[c].active] :
        c \in Own(u)}

Export(u) ==
    /\ file' = Exported(u)
    /\ UNCHANGED <<cats, hidden, premium, imported>>

\* A slip: an id of the file that is taken is not replaced.
KeepIds(u, e) == IF WithCode(u, e.code) # {} THEN WithCode(u, e.code) ELSE {e.id}

\* Where an entry of the file goes: to the user's row with its id, else to the
\* user's row with its code, else to its own id if that is free, else to a new id.
Wanted(u, e) ==
    IF e.id \in Own(u) THEN {e.id}
    ELSE IF WithCode(u, e.code) # {} THEN WithCode(u, e.code)
    ELSE IF e.id \notin DOMAIN cats THEN {e.id} ELSE Fresh \ {f.id : f \in file}

\* An entry whose place is taken by another entry goes to a new id.
Targets(u) ==
    {m \in [file -> Ids] :
        /\ \A e, f \in file : m[e] = m[f] => e = f
        /\ \A e \in file :
            \/ m[e] \in Wanted(u, e)
            \/ m[e] \in Fresh /\ \E f \in file \ {e} : m[f] \in Wanted(u, e)}

\* A parent is taken from the file, or as it stands if it exists.
NewParent(m, p) ==
    IF \E f \in file : f.id = p THEN m[CHOOSE f \in file : f.id = p]
    ELSE IF p \in DOMAIN cats \cup Tops \cup Subs THEN p ELSE None

\* The rows after an import; a new one is not custom.
Merged(u, m) ==
    [c \in DOMAIN cats \cup {m[e] : e \in file} |->
        IF \E e \in file : m[e] = c
        THEN LET e == CHOOSE f \in file : m[f] = c IN
             [owner |-> u, code |-> e.code, parent |-> NewParent(m, e.parent),
              active |-> e.active, custom |-> c \in DOMAIN cats /\ cats[c].custom]
        ELSE cats[c]]

\* Two rows of the user with one code: the import is refused with 422.
Unique(rows) ==
    \A c, d \in DOMAIN rows : rows[c].owner = rows[d].owner /\ rows[c].code = rows[d].code => c = d

Import(u) ==
    /\ file # {}
    /\ imported' = imported \cup {u}
    /\ UNCHANGED <<hidden, premium, file>>
    /\ \E m \in Targets(u) : Unique(Merged(u, m)) /\ cats' = Merged(u, m)

\* delete_account_for_user; the person begins again with a new user.
DeleteAccount(u) ==
    /\ Own(u) # {} \/ hidden[u] # {}
    /\ cats' = [c \in DOMAIN cats \ Own(u) |-> cats[c]]
    /\ hidden' = [hidden EXCEPT ![u] = {}]
    /\ imported' = imported \ {u}
    /\ UNCHANGED <<premium, file>>

-----------------------------------------------------------------------------
Next ==
    \E u \in Users :
        \/ \E p \in Parents :
            \/ \E code \in Codes : Create(u, code, p)
            \/ \E c \in Ids : Update(u, c, p)
        \/ \E c \in Ids : Delete(u, c)
        \/ \E b \in Tops \cup Subs : Hide(u, b) \/ Restore(u, b)
        \/ Export(u) \/ Import(u) \/ DeleteAccount(u)

Spec == Init /\ [][Next]_vars

-----------------------------------------------------------------------------
(* What the user is shown, and what the worker chooses from.               *)

Active(u, code) == {c \in WithCode(u, code) : cats[c].active}
Above(b) == IF b \in Subs THEN ParentOf[b] ELSE None

\* list_categories: a built-in category gives way to one of the user's with its
\* code in its place.
Listed(u) ==
    {c \in Own(u) : cats[c].active}
    \cup {b \in (Tops \cup Subs) \ hidden[u] :
            ~\E c \in Active(u, CodeOf[b]) : cats[c].parent = Above(b)}

\* _resolve_category_with_scope, for an item and for a receipt.
ItemCategories(u, code) ==
    IF Active(u, code) # {} THEN Active(u, code)
    ELSE {b \in (Tops \cup Subs) \ hidden[u] : CodeOf[b] = code}
ReceiptCategories(u, code) == {Worker[t] : t \in {b \in Tops : CodeOf[b] = code}} \ hidden[u]

-----------------------------------------------------------------------------
(* Properties.                                                             *)

\* A category is below another one of its user's, a built-in one or none.
AmongOwn(rows) ==
    \A c \in DOMAIN rows :
        \/ rows[c].parent \in Tops \cup {None}
        \/ rows[c].parent \in DOMAIN rows /\ rows[rows[c].parent].owner = rows[c].owner

\* No set of categories in which each one is below another one of the set.
Rooted(rows) ==
    \A S \in SUBSET DOMAIN rows : (\A c \in S : rows[c].parent \in S) => S = {}

\* From every category the way up stays among the user's own and ends, at a
\* built-in category or at one without a parent, whatever is moved and whatever
\* an older file or one of another account puts back.
WellRooted == AmongOwn(cats) /\ Rooted(cats)

\* Deleting, creating anew and moving do not take a free user who has not
\* imported anything beyond the limits.
WithinFreeLimits ==
    \A u \in Users \ (premium \cup imported) : Used(u, None) <= Limit /\ Used(u, u) <= SubLimit

\* What the worker files an item under is in the user's list, and what it files
\* a receipt under has the code of a top category in the list, whatever is hidden
\* and restored, one by one or with those below it, and whichever codes of
\* built-in categories the user's own have, in the same place or in another.
FiledAsListed ==
    \A u \in Users, code \in Codes \cup {CodeOf[b] : b \in Tops \cup Subs} :
        /\ ItemCategories(u, code) \subseteq Listed(u)
        /\ ReceiptCategories(u, code) # {} =>
            \/ \E c \in Active(u, code) : cats[c].parent = None
            \/ \E t \in Tops \cap Listed(u) : CodeOf[t] = code

\* An import changes nothing of another user's, and one of what was just
\* exported changes nothing at all.
ImportKeeps(u) ==
    /\ \A c \in DOMAIN cats : cats[c].owner # u => c \in DOMAIN cats' /\ cats'[c] = cats[c]
    /\ file = Exported(u) => UNCHANGED cats
ImportsMerge == [][\A u \in Users : ImportKeeps(u) \/ ~Import(u)]_vars

=============================================================================
