------------------------------- MODULE Breakdown -------------------------------
(***************************************************************************)
(* What a user's spending is broken down into: by category, and from there *)
(* by the categories below one, for the transactions and items that a      *)
(* filter lets through                                                     *)
(* (backend/app/services/transactions/read_models.py,                      *)
(* backend/app/api/routers/transactions_analytics.py).                     *)
(*                                                                         *)
(* An item stands for its amount: every item is converted and added by     *)
(* itself, so a sum is right exactly if the items in it are.               *)
(***************************************************************************)
EXTENDS FiniteSets, Naturals

CONSTANTS
    Cats,   \* ITEM categories
    Items,
    Tx,     \* transactions
    None

\* What is taken of the constants; the instance for TLC assumes it.
CategoriesAssumption == IsFiniteSet(Cats) /\ None \notin Cats

VARIABLES
    parent,  \* of each category; its TRANSACTION category is given by its top-level one
    visible, \* the categories that are active and not hidden
    items,   \* the transaction and category of each item
    header,  \* the top-level category by which each transaction is filed
    request, \* category_ids and subcategory_ids of the filter
    answer

vars == <<parent, visible, items, header, request, answer>>

-----------------------------------------------------------------------------
Roots == {c \in Cats : parent[c] = None}

\* As far as it is visible: what the drill-down starts from, and what is below.
TopLevels == {c \in visible : parent[c] \notin visible}
Children(c) == {d \in visible : parent[d] = c}

TypeOK ==
    /\ parent \in [Cats -> Cats \cup {None}]
    /\ visible \subseteq Cats
    /\ items \in [Items -> [tx : Tx, cat : Cats \cup {None}]]
    /\ header \in [Tx -> Cats \cup {None}]
    /\ request \in [cats : SUBSET Cats, subs : SUBSET Cats]
    /\ \/ answer = None
       \/ /\ DOMAIN answer.breakdown \subseteq Cats
          /\ answer.bySub \in [{c \in Cats : parent[c] # None} -> SUBSET Items]
          /\ DOMAIN answer.drill = TopLevels
          /\ \A t \in TopLevels : answer.drill[t] \in [Children(t) -> SUBSET Items]
          /\ answer.listed \in [visible -> SUBSET Items]

\* Trees of any depth: update_category puts one with children below another.
Init ==
    /\ parent \in [Cats -> Cats \cup {None}]
    /\ \A s \in SUBSET Cats : (\A c \in s : parent[c] \in s) => s = {}
    /\ visible \in SUBSET Cats
    /\ items \in [Items -> [tx : Tx, cat : Cats \cup {None}]]
    /\ header \in [Tx -> Roots \cup {None}]
    /\ request \in [cats : SUBSET Cats, subs : SUBSET Cats]
    /\ answer = None

-----------------------------------------------------------------------------
(* The tree, as far as it is visible.                                      *)

\* The walk up from a category to the first of "ends".
Climb(c, ends) ==
    LET up[n \in 0..Cardinality(Cats)] ==
            IF n = 0 THEN c ELSE IF up[n - 1] \in ends THEN up[n - 1] ELSE parent[up[n - 1]]
    IN up[Cardinality(Cats)]

\* _resolve_top_level_item_category
TopLevel(c) == Climb(c, TopLevels)

\* _resolve_direct_child_under_top_level: if it is one of Children(top).
DirectChild(c, top) == Climb(c, TopLevels \cup Children(top))

\* _collect_descendants
Descendants(roots) ==
    LET down[n \in 0..Cardinality(Cats)] ==
            IF n = 0 THEN roots ELSE down[n - 1] \cup {c \in visible : parent[c] \in down[n - 1]}
    IN down[Cardinality(Cats)]

-----------------------------------------------------------------------------
(* The filter.                                                             *)

\* _resolve_category_filter_sets: a category is taken for its top-level one, and
\* one that is not visible is left out.
Requested == {TopLevel(c) : c \in request.cats \cap visible}
Wanted == Descendants(Requested)

\* _resolve_subcategory_filter_ids
WantedSubs == {c \in request.subs \cap visible : parent[c] # None}

HasItem(t, cats) == \E i \in Items : items[i].tx = t /\ items[i].cat \in cats

\* _build_filtered_transaction_ids_query: a filter of which nothing is left is none.
Filtered ==
    {t \in Tx : /\ Requested # {} => header[t] \in Requested \/ HasItem(t, Wanted)
                /\ WantedSubs # {} => HasItem(t, WantedSubs)}

\* _build_item_scope_query
Scope ==
    {i \in Items : /\ items[i].tx \in Filtered
                   /\ Wanted # {} => items[i].cat \in Wanted
                   /\ WantedSubs # {} => items[i].cat \in WantedSubs}

-----------------------------------------------------------------------------
(* The answers.                                                            *)

\* A slip: an item counts for its own category.
OwnCategory(c) == c

\* The category in the breakdown that an item's category counts for.
RolledUp(c) == IF parent[c] # None THEN parent[c] ELSE c

\* get_transactions_summary: items whose category is hidden or deleted count too.
Summary ==
    LET counted == {i \in Scope : items[i].cat # None} IN
    [c \in {RolledUp(items[i].cat) : i \in counted} |->
        {i \in counted : RolledUp(items[i].cat) = c}]

\* get_category_subcategory_summary: the row of each category below a top one.
DrillDown(top) ==
    [d \in Children(top) |->
        {i \in Scope : items[i].cat \in Descendants({top}) /\ DirectChild(items[i].cat, top) = d}]

\* The breakdown by subcategory, for who pays: nothing rolls up.
BySubcategory(c) == {i \in Scope : items[i].cat = c}

\* get_subcategory_item_summary, all of its rows.
Listed(c) == {i \in Scope : items[i].cat = c}

Answer ==
    /\ answer = None
    /\ answer' = [breakdown |-> Summary,
                  bySub |-> [c \in {d \in Cats : parent[d] # None} |-> BySubcategory(c)],
                  drill |-> [t \in TopLevels |-> DrillDown(t)],
                  listed |-> [c \in visible |-> Listed(c)]]
    /\ UNCHANGED <<parent, visible, items, header, request>>

Next == Answer
Spec == Init /\ [][Next]_vars

-----------------------------------------------------------------------------
(* Properties.                                                             *)

\* What the breakdown shows for a category.
Shown(c) == IF c \in DOMAIN answer.breakdown THEN answer.breakdown[c] ELSE {}

\* What is listed for a category, unless it counts for the one above.
Own(c) == IF parent[c] = None THEN answer.listed[c] ELSE {}

\* What the breakdown by subcategory shows right below a category, for the
\* visible ones there or for the hidden ones.
Below(c, hidden) ==
    UNION {answer.bySub[d] : d \in {e \in Cats : parent[e] = c /\ (e \in visible <=> ~hidden)}}

\* Every view agrees with the one above it, in trees of any depth.  What the
\* breakdown shows for a visible category is what is listed for it, if it is a
\* top-level one, and what the breakdown by subcategory shows right below it.  A
\* row of the drill-down is what is listed for its category and all below.  The
\* two count deeper categories in different rows, but all of a tree is the same in
\* both, except what is hidden, which the drill-down leaves out.  A filter on
\* categories lets exactly the items of their visible trees through, whatever
\* their transactions are filed by.
DrillDownAgrees ==
    answer # None =>
        /\ \A c \in visible : Shown(c) = Own(c) \cup Below(c, FALSE) \cup Below(c, TRUE)
        /\ \A t \in TopLevels :
            /\ \A d \in Children(t) :
                answer.drill[t][d] = UNION {answer.listed[c] : c \in Descendants({d})}
            /\ UNION {Shown(c) : c \in Descendants({t})} =
                Own(t) \cup (UNION {answer.drill[t][d] : d \in Children(t)})
                \cup (UNION {Below(c, TRUE) : c \in Descendants({t})})
        /\ Requested # {} /\ WantedSubs = {} =>
            UNION {answer.breakdown[c] : c \in DOMAIN answer.breakdown}
            = {i \in Items : items[i].cat \in visible /\ TopLevel(items[i].cat) \in Requested}

=============================================================================
