--------------------------- MODULE UserDataProofs ----------------------------
(***************************************************************************)
(* What a user keeps and what is computed from it, for any number of       *)
(* users, rows, days and limits.                                           *)
(*                                                                         *)
(* Categories: the tree never closes a cycle, through moves, deletions and *)
(* imports of files of any account; a free user who imports nothing stays  *)
(* within the limits; an import leaves the rows of others alone and        *)
(* restores an export; and the worker files by categories that are listed. *)
(* Rates: an answer is honest about the day its rate is of.  Trends: the   *)
(* days of a range are in one bucket each, by days, weeks or months of any *)
(* lengths.  Bills: the date that a device shows is one of the server's.   *)
(* And the composition: its behaviours are behaviours of each of its       *)
(* parts, so that what is proved of these, of transactions                 *)
(* (TransactionsProofs) and of breakdowns (BreakdownProofs) holds of it.   *)
(***************************************************************************)
EXTENDS MCUserData, Sequences, FiniteSetTheorems, NaturalsInduction, TLAPS

-----------------------------------------------------------------------------
(* The inductive invariant.                                                *)

\* A file that an export wrote is closed: what is below another category has
\* that one in the file, and none is below itself.
FileRooted ==
    /\ \A e, f \in file : e.id = f.id => e = f
    /\ \A e \in file : e.parent \in {f.id : f \in file} \cup Tops \cup {None}
    /\ \A S \in SUBSET file : (\A e \in S : \E f \in S : e.parent = f.id) => S = {}

IInv == TypeOK /\ WellRooted /\ FileRooted


-----------------------------------------------------------------------------
(* Storing one row.                                                        *)

\* A row that is given a parent without a parent of its own closes no cycle.
LEMMA StoreRooted ==
    ASSUME BuiltinAssumption, IInv,
           NEW u \in Users, NEW c \in Ids, NEW row \in Row,
           row.owner = u, c \in DOMAIN cats => cats[c].owner = u,
           \/ row.parent \in Tops \cup {None}
           \/ row.parent \in Own(u) \ {c} /\ cats[row.parent].parent = None
           \/ c \in DOMAIN cats /\ row.parent = cats[c].parent,
           Store(c, row)
    PROVE  /\ WellRooted'
           /\ DOMAIN cats' \subseteq Ids /\ \A d \in DOMAIN cats' : cats'[d] \in Row
<1>1. /\ DOMAIN cats' = DOMAIN cats \cup {c}
      /\ \A d \in DOMAIN cats' : cats'[d] = IF d = c THEN row ELSE cats[d]
  BY DEF Store
<1>2. /\ DOMAIN cats' \subseteq Ids /\ \A d \in DOMAIN cats' : cats'[d] \in Row
  BY <1>1 DEF IInv, TypeOK
<1>3. c \in DOMAIN cats => cats'[c].owner = cats[c].owner
  BY <1>1
<1>4. AmongOwn(cats')
  <2> SUFFICES ASSUME NEW d \in DOMAIN cats', cats'[d].parent \notin Tops \cup {None}
               PROVE  /\ cats'[d].parent \in DOMAIN cats'
                      /\ cats'[cats'[d].parent].owner = cats'[d].owner
    BY DEF AmongOwn
  <2>1. CASE d = c /\ row.parent \in Own(u) \ {c}
    BY <1>1, <2>1 DEF Own
  <2>2. CASE d \in DOMAIN cats /\ cats'[d].parent = cats[d].parent
    <3>1. /\ cats[d].parent \in DOMAIN cats
          /\ cats[cats[d].parent].owner = cats[d].owner
      BY <2>2 DEF IInv, WellRooted, AmongOwn
    <3> QED BY <1>1, <1>3, <2>2, <3>1
  <2> QED BY <1>1, <2>1, <2>2
<1>5. ASSUME NEW S \in SUBSET DOMAIN cats', \A d \in S : cats'[d].parent \in S
      PROVE  S = {}
  <2>1. \A d \in Tops \cup {None} : d \notin S
    BY <1>2 DEF BuiltinAssumption
  <2>2. CASE c \in S /\ row.parent \in Own(u) \ {c} /\ cats[row.parent].parent = None
    <3>1. row.parent \in S
      BY <1>1, <1>5, <2>2
    <3>2. cats'[row.parent].parent = None
      BY <1>1, <2>2, <3>1
    <3> QED BY <1>5, <2>1, <3>1, <3>2
  <2>3. CASE c \in S /\ row.parent \in Tops \cup {None}
    BY <1>1, <1>5, <2>1, <2>3
  <2>4. CASE c \notin S \/ (c \in DOMAIN cats /\ row.parent = cats[c].parent)
    <3>1. S \in SUBSET DOMAIN cats /\ \A d \in S : cats[d].parent \in S
      BY <1>1, <1>5, <2>4
    <3> QED BY <3>1 DEF IInv, WellRooted, Rooted
  <2> QED BY <2>2, <2>3, <2>4
<1> QED BY <1>2, <1>4, <1>5 DEF WellRooted, Rooted

-----------------------------------------------------------------------------
(* The actions.                                                            *)

\* POST /categories: a new row, or a deleted one of the code brought back.
LEMMA CreateKept ==
    ASSUME BuiltinAssumption, IInv, NEW u \in Users, NEW code \in Codes, NEW p \in Parents,
           Create(u, code, p)
    PROVE  IInv'
<1>1. PICK c \in NewId \cup WithCode(u, code) :
        /\ IF c \in Fresh THEN WithCode(u, code) = {} ELSE ~cats[c].active
        /\ Store(c, [owner |-> u, code |-> code, parent |-> p, active |-> TRUE, custom |-> TRUE])
  BY DEF Create
<1> DEFINE row == [owner |-> u, code |-> code, parent |-> p, active |-> TRUE, custom |-> TRUE]
<1>2. row \in Row
  BY DEF Row
<1>3. c \in Fresh \/ c \in WithCode(u, code)
  BY <1>1 DEF NewId
<1>4. c \in Ids /\ (c \in DOMAIN cats => cats[c].owner = u /\ cats[c].code = code)
  BY <1>3 DEF Fresh, WithCode, Own, IInv, TypeOK
<1>5. p \in Tops \cup {None} \/ (p \in Own(u) \ {c} /\ cats[p].parent = None)
  <2>1. MayBeParent(u, p) BY DEF Create
  <2>2. p \in Own(u) /\ cats[p].active => p # c
    BY <1>1, <1>3 DEF Fresh, Own
  <2> QED BY <2>1, <2>2 DEF MayBeParent
<1>6. WellRooted' /\ DOMAIN cats' \subseteq Ids /\ \A d \in DOMAIN cats' : cats'[d] \in Row
  <2> HIDE DEF row
  <2>1. row.owner = u /\ row.parent = p BY DEF row
  <2>2. Store(c, row) BY <1>1 DEF row
  <2> QED BY <1>2, <1>4, <1>5, <2>1, <2>2, StoreRooted
<1>7. \A d, e \in DOMAIN cats' :
        cats'[d].owner = cats'[e].owner /\ cats'[d].code = cats'[e].code => d = e
  <2>1. c \in Fresh => WithCode(u, code) = {}
    BY <1>1
  <2>2. c \notin Fresh => c \in DOMAIN cats
    BY <1>4 DEF Fresh
  <2>3. \A d \in DOMAIN cats : cats[d].owner = u /\ cats[d].code = code => d = c
    BY <1>4, <2>1, <2>2 DEF WithCode, Own, IInv, TypeOK
  <2> QED BY <1>1, <2>3 DEF Store, IInv, TypeOK
<1> QED BY <1>6, <1>7 DEF Create, IInv, TypeOK, FileRooted

\* PATCH /categories: a category gets another parent.
LEMMA UpdateKept ==
    ASSUME BuiltinAssumption, IInv, NEW u \in Users, NEW c \in Ids, NEW p \in Parents,
           Update(u, c, p)
    PROVE  IInv'
<1> DEFINE row == [cats[c] EXCEPT !.parent = p]
<1>1. c \in DOMAIN cats /\ cats[c].owner = u /\ cats[c] \in Row
  BY DEF Update, Own, IInv, TypeOK
<1>2. row \in Row /\ row.owner = u /\ row.parent = p /\ row.code = cats[c].code
  BY <1>1 DEF Row
<1>3. p \in Tops \cup {None} \/ (p \in Own(u) \ {c} /\ cats[p].parent = None)
  BY DEF Update, MayBeParent
<1>4. Store(c, row)
  BY DEF Update
<1>5. WellRooted' /\ DOMAIN cats' \subseteq Ids /\ \A d \in DOMAIN cats' : cats'[d] \in Row
  <2> HIDE DEF row
  <2> QED BY <1>1, <1>2, <1>3, <1>4, StoreRooted
<1>6. \A d, e \in DOMAIN cats' :
        cats'[d].owner = cats'[e].owner /\ cats'[d].code = cats'[e].code => d = e
  <2> HIDE DEF row
  <2> QED BY <1>1, <1>2, <1>4 DEF Store, IInv, TypeOK
<1> QED BY <1>5, <1>6 DEF Update, IInv, TypeOK, FileRooted

\* DELETE /categories: the row stays and is not active any more.
LEMMA DeleteKept ==
    ASSUME BuiltinAssumption, IInv, NEW u \in Users, NEW c \in Ids, Delete(u, c)
    PROVE  IInv'
<1> DEFINE row == [cats[c] EXCEPT !.active = FALSE]
<1>1. c \in DOMAIN cats /\ cats[c].owner = u /\ cats[c] \in Row
  BY DEF Delete, Own, IInv, TypeOK
<1>2. row \in Row /\ row.owner = u /\ row.parent = cats[c].parent /\ row.code = cats[c].code
  BY <1>1 DEF Row
<1>4. Store(c, row)
  BY DEF Delete
<1>5. WellRooted' /\ DOMAIN cats' \subseteq Ids /\ \A d \in DOMAIN cats' : cats'[d] \in Row
  <2> HIDE DEF row
  <2> QED BY <1>1, <1>2, <1>4, StoreRooted
<1>6. \A d, e \in DOMAIN cats' :
        cats'[d].owner = cats'[e].owner /\ cats'[d].code = cats'[e].code => d = e
  <2> HIDE DEF row
  <2> QED BY <1>1, <1>2, <1>4 DEF Store, IInv, TypeOK
<1> QED BY <1>5, <1>6 DEF Delete, IInv, TypeOK, FileRooted

\* GET /data/export: the file is closed because the tree is.
LEMMA ExportKept ==
    ASSUME BuiltinAssumption, IInv, NEW u \in Users, Export(u)
    PROVE  IInv'
<1>1. /\ file' = {[id |-> c, code |-> cats[c].code, parent |-> cats[c].parent,
                   active |-> cats[c].active] : c \in Own(u)}
      /\ UNCHANGED <<cats, hidden, premium, imported>>
  BY DEF Export, Exported
<1>2. \A c \in Own(u) : c \in DOMAIN cats /\ cats[c].owner = u /\ cats[c] \in Row /\ c \in Ids
  BY DEF Own, IInv, TypeOK
<1>3. file' \subseteq Entry
  BY <1>1, <1>2 DEF Entry, Row
<1>4. \A e \in file' : e.id \in Own(u) /\ e.parent = cats[e.id].parent
  BY <1>1
<1>5. \A e, f \in file' : e.id = f.id => e = f
  BY <1>1
<1>6. \A c \in Own(u) : \E e \in file' : e.id = c
  <2> SUFFICES ASSUME NEW c \in Own(u) PROVE \E e \in file' : e.id = c
    OBVIOUS
  <2> DEFINE entry == [id |-> c, code |-> cats[c].code, parent |-> cats[c].parent,
                       active |-> cats[c].active]
  <2>1. entry \in file' /\ entry.id = c
    BY <1>1
  <2> QED BY <2>1
<1>7. \A e \in file' : e.parent \in {f.id : f \in file'} \cup Tops \cup {None}
  <2> SUFFICES ASSUME NEW e \in file'
               PROVE  e.parent \in {f.id : f \in file'} \cup Tops \cup {None}
    OBVIOUS
  <2>1. e.parent \in Own(u) \cup Tops \cup {None}
    BY <1>2, <1>4 DEF IInv, WellRooted, AmongOwn, Own
  <2> QED BY <1>6, <2>1
<1>8. ASSUME NEW S \in SUBSET file', \A e \in S : \E f \in S : e.parent = f.id
      PROVE  S = {}
  <2> DEFINE T == {e.id : e \in S}
  <2>1. T \in SUBSET DOMAIN cats
    BY <1>2, <1>4
  <2>2. \A c \in T : cats[c].parent \in T
    BY <1>4, <1>8
  <2>3. T = {}
    BY <2>1, <2>2 DEF IInv, WellRooted, Rooted
  <2> QED BY <2>3
<1>9. FileRooted'
  BY <1>5, <1>7, <1>8 DEF FileRooted
<1> QED BY <1>1, <1>3, <1>9 DEF IInv, TypeOK, WellRooted, AmongOwn, Rooted

\* DELETE /users/me: the rows of one user go, which no row of another is below.
LEMMA DeleteAccountKept ==
    ASSUME BuiltinAssumption, IInv, NEW u \in Users, DeleteAccount(u)
    PROVE  IInv'
<1>1. /\ DOMAIN cats' = DOMAIN cats \ Own(u)
      /\ \A c \in DOMAIN cats' : cats'[c] = cats[c]
  BY DEF DeleteAccount
<1>2. \A c \in DOMAIN cats' : cats[c].owner # u
  BY <1>1 DEF Own
<1>3. AmongOwn(cats')
  BY <1>1, <1>2 DEF IInv, WellRooted, AmongOwn, Own
<1>4. ASSUME NEW S \in SUBSET DOMAIN cats', \A c \in S : cats'[c].parent \in S
      PROVE  S = {}
  <2>1. S \in SUBSET DOMAIN cats /\ \A c \in S : cats[c].parent \in S
    BY <1>1, <1>4
  <2> QED BY <2>1 DEF IInv, WellRooted, Rooted
<1>5. WellRooted'
  BY <1>3, <1>4 DEF WellRooted, Rooted
<1>6. TypeOK'
  BY <1>1 DEF DeleteAccount, IInv, TypeOK
<1> QED BY <1>5, <1>6 DEF DeleteAccount, IInv, FileRooted

\* delete_category and restore_category on a built-in one: no row changes.
LEMMA HideKept ==
    ASSUME BuiltinAssumption, IInv, NEW u \in Users, NEW b \in Tops \cup Subs,
           Hide(u, b) \/ Restore(u, b)
    PROVE  IInv'
<1>1. HiddenWith(b) \subseteq Builtins
  BY DEF HiddenWith, Builtins
<1>2. hidden' \in [Users -> SUBSET Builtins] /\ UNCHANGED <<cats, premium, file, imported>>
  BY <1>1 DEF Hide, Restore, IInv, TypeOK
<1> QED BY <1>2 DEF IInv, TypeOK, WellRooted, AmongOwn, Rooted, FileRooted

\* The rows of a file go to rows of the user and to new ones, and hang on each
\* other as they do in the file.
LEMMA ImportKept ==
    ASSUME BuiltinAssumption, IInv, NEW u \in Users, Import(u)
    PROVE  IInv'
<1>1. PICK m \in Targets(u) : Unique(Merged(u, m)) /\ cats' = Merged(u, m)
  BY DEF Import
<1> DEFINE Image == {m[e] : e \in file}
<1>2. m \in [file -> Ids] /\ \A e, f \in file : m[e] = m[f] => e = f
  BY DEF Targets
<1>3. \A e \in file : m[e] \in Own(u) \cup Fresh
  <2>1. \A e \in file : Wanted(u, e) \subseteq Own(u) \cup Fresh
    BY DEF Wanted, WithCode, Fresh, Entry, IInv, TypeOK
  <2> QED BY <2>1 DEF Targets
<1>4. DOMAIN cats' = DOMAIN cats \cup Image
  BY <1>1 DEF Merged
<1>5. \A e \in file : \E custom \in BOOLEAN :
        cats'[m[e]] = [owner |-> u, code |-> e.code, parent |-> NewParent(m, e.parent),
                       active |-> e.active, custom |-> custom]
  <2> SUFFICES ASSUME NEW e \in file
               PROVE  \E custom \in BOOLEAN :
                        cats'[m[e]] = [owner |-> u, code |-> e.code,
                                       parent |-> NewParent(m, e.parent), active |-> e.active,
                                       custom |-> custom]
    OBVIOUS
  <2> DEFINE custom == m[e] \in DOMAIN cats /\ cats[m[e]].custom
  <2>1. (CHOOSE f \in file : m[f] = m[e]) = e
    BY <1>2
  <2>2. m[e] \in DOMAIN cats \cup Image
    OBVIOUS
  <2>3. custom \in BOOLEAN
    OBVIOUS
  <2>4. cats'[m[e]] = [owner |-> u, code |-> e.code, parent |-> NewParent(m, e.parent),
                       active |-> e.active, custom |-> custom]
    BY <1>1, <2>1, <2>2 DEF Merged
  <2> HIDE DEF custom
  <2> QED BY <2>3, <2>4
<1>6. \A c \in DOMAIN cats \ Image : cats'[c] = cats[c]
  BY <1>1 DEF Merged
<1>7. \A e \in file :
        \/ \E f \in file : f.id = e.parent /\ NewParent(m, e.parent) = m[f]
        \/ NewParent(m, e.parent) \in Tops \cup {None}
  <2> SUFFICES ASSUME NEW e \in file
               PROVE  \/ \E f \in file : f.id = e.parent /\ NewParent(m, e.parent) = m[f]
                      \/ NewParent(m, e.parent) \in Tops \cup {None}
    OBVIOUS
  <2>1. CASE \E f \in file : f.id = e.parent
    BY <2>1 DEF NewParent
  <2>2. CASE ~\E f \in file : f.id = e.parent
    <3>1. e.parent \in Tops \cup {None}
      BY <2>2 DEF IInv, FileRooted
    <3> QED BY <2>2, <3>1 DEF NewParent
  <2> QED BY <2>1, <2>2
<1>8. \A e \in file : cats'[m[e]].owner = u /\ cats'[m[e]].parent = NewParent(m, e.parent)
  <2> SUFFICES ASSUME NEW e \in file
               PROVE  cats'[m[e]].owner = u /\ cats'[m[e]].parent = NewParent(m, e.parent)
    OBVIOUS
  <2> DEFINE above == NewParent(m, e.parent)
  <2>1. PICK custom \in BOOLEAN :
          cats'[m[e]] = [owner |-> u, code |-> e.code, parent |-> above,
                         active |-> e.active, custom |-> custom]
    BY <1>5
  <2> HIDE DEF above
  <2>2. cats'[m[e]].owner = u /\ cats'[m[e]].parent = above
    BY <2>1
  <2> QED BY <2>2 DEF above
<1>9. DOMAIN cats' \subseteq Ids /\ \A c \in DOMAIN cats' : cats'[c] \in Row
  <2>1. DOMAIN cats' \subseteq Ids
    BY <1>2, <1>4 DEF IInv, TypeOK
  <2>2. \A e \in file : cats'[m[e]] \in Row
    <3> SUFFICES ASSUME NEW e \in file PROVE cats'[m[e]] \in Row
      OBVIOUS
    <3>1. e.code \in Codes /\ e.active \in BOOLEAN
      BY DEF IInv, TypeOK, Entry
    <3>2. NewParent(m, e.parent) \in Parents
      BY <1>2, <1>7 DEF Parents
    <3> DEFINE above == NewParent(m, e.parent)
    <3>3. PICK custom \in BOOLEAN :
            cats'[m[e]] = [owner |-> u, code |-> e.code, parent |-> above,
                           active |-> e.active, custom |-> custom]
      BY <1>5
    <3> HIDE DEF above
    <3> QED BY <3>1, <3>2, <3>3 DEF Row, above
  <2> QED BY <1>4, <1>6, <2>1, <2>2 DEF IInv, TypeOK
<1>10. \A c \in DOMAIN cats : cats'[c].owner = cats[c].owner
  <2> SUFFICES ASSUME NEW c \in DOMAIN cats PROVE cats'[c].owner = cats[c].owner
    OBVIOUS
  <2>1. CASE c \in Image
    <3>1. PICK e \in file : c = m[e]
      BY <2>1
    <3>2. c \in Own(u)
      BY <1>3, <3>1 DEF Fresh
    <3> QED BY <1>8, <3>1, <3>2 DEF Own
  <2> QED BY <1>6, <2>1
<1>11. AmongOwn(cats')
  <2> SUFFICES ASSUME NEW c \in DOMAIN cats', cats'[c].parent \notin Tops \cup {None}
               PROVE  /\ cats'[c].parent \in DOMAIN cats'
                      /\ cats'[cats'[c].parent].owner = cats'[c].owner
    BY DEF AmongOwn
  <2>1. CASE c \in Image
    <3>1. PICK e \in file : c = m[e]
      BY <2>1
    <3>2. PICK f \in file : cats'[c].parent = m[f]
      BY <1>7, <1>8, <3>1
    <3> QED BY <1>4, <1>8, <3>1, <3>2
  <2>2. CASE c \notin Image
    <3>1. c \in DOMAIN cats /\ cats'[c] = cats[c]
      BY <1>4, <1>6, <2>2
    <3>2. cats[c].parent \in DOMAIN cats /\ cats[cats[c].parent].owner = cats[c].owner
      BY <3>1 DEF IInv, WellRooted, AmongOwn
    <3> QED BY <1>4, <1>10, <3>1, <3>2
  <2> QED BY <2>1, <2>2
<1>12. ASSUME NEW S \in SUBSET DOMAIN cats', \A c \in S : cats'[c].parent \in S
       PROVE  S = {}
  <2> DEFINE T == {e \in file : m[e] \in S}
  <2>1. \A p \in Tops \cup {None} : p \notin S
    BY <1>9 DEF BuiltinAssumption
  <2>2. \A e \in T : \E f \in T : e.parent = f.id
    <3> SUFFICES ASSUME NEW e \in T PROVE \E f \in T : e.parent = f.id
      OBVIOUS
    <3>1. NewParent(m, e.parent) \in S
      BY <1>8, <1>12
    <3> QED BY <1>7, <2>1, <3>1
  <2>3. T = {}
    BY <2>2 DEF IInv, FileRooted
  <2>4. S \in SUBSET DOMAIN cats /\ \A c \in S : cats[c].parent \in S
    BY <1>4, <1>6, <1>12, <2>3
  <2> QED BY <2>4 DEF IInv, WellRooted, Rooted
<1>13. WellRooted'
  BY <1>11, <1>12 DEF WellRooted, Rooted
<1>14. \A c, d \in DOMAIN cats' :
        cats'[c].owner = cats'[d].owner /\ cats'[c].code = cats'[d].code => c = d
  BY <1>1 DEF Unique
<1>15. TypeOK'
  BY <1>9, <1>14 DEF Import, IInv, TypeOK
<1> QED BY <1>13, <1>15 DEF Import, IInv, FileRooted

-----------------------------------------------------------------------------
(* The theorems.                                                           *)

\* The invariant is inductive: what a file holds is part of it, because an
\* import puts the file's tree into the user's.
LEMMA NextKept == ASSUME BuiltinAssumption, IInv, [Next]_vars PROVE IInv'
<1>2. CASE UNCHANGED vars
  BY <1>2 DEF vars, IInv, TypeOK, WellRooted, AmongOwn, Rooted, FileRooted
<1>3. CASE Next
  BY <1>3, CreateKept, UpdateKept, DeleteKept, HideKept, ExportKept, ImportKept,
     DeleteAccountKept DEF Next
<1> QED BY <1>2, <1>3

\* There are no rows and no file at first.
LEMMA InitHolds == Init => IInv
  BY DEF Init, IInv, TypeOK, WellRooted, AmongOwn, Rooted, FileRooted

\* Rows, hidden categories and files keep their types, and a user has one
\* category of each code.
THEOREM CategoryTypes == ASSUME BuiltinAssumption PROVE Spec => []TypeOK
<1>1. IInv /\ [Next]_vars => IInv'
  BY NextKept
<1>2. IInv => TypeOK
  BY DEF IInv
<1> QED BY InitHolds, <1>1, <1>2, PTL DEF Spec

\* Whatever users move, delete, bring back and import, from any account's file
\* of any time, the way up from a category ends among their own and the
\* built-in ones.
THEOREM RootedTheorem == ASSUME BuiltinAssumption PROVE Spec => []WellRooted
<1>1. IInv /\ [Next]_vars => IInv'
  BY NextKept
<1>2. IInv => WellRooted
  BY DEF IInv
<1> QED BY InitHolds, <1>1, <1>2, PTL DEF Spec

\* What the worker files items and receipts under is in the user's list, whatever
\* is hidden and restored in whatever order, and whichever codes the user's own
\* categories have.
THEOREM FiledTheorem == ASSUME BuiltinAssumption PROVE Spec => []FiledAsListed
<1> DEFINE Together == \A u \in Users, t \in Tops : t \in hidden[u] <=> Worker[t] \in hidden[u]
           Inv == hidden \in [Users -> SUBSET Builtins] /\ Together
<1>1. Init => Inv
  BY DEF Init
<1>2. ASSUME Inv, [Next]_vars PROVE Inv'
  <2>1. ASSUME NEW u \in Users, NEW b \in Tops \cup Subs, Hide(u, b) \/ Restore(u, b)
        PROVE  Inv'
    <3>1. HiddenWith(b) \subseteq Builtins
      BY DEF HiddenWith, Builtins
    <3>2. \A t \in Tops : t \in HiddenWith(b) <=> Worker[t] \in HiddenWith(b)
      BY DEF HiddenWith, BuiltinAssumption
    <3>3. hidden' = [hidden EXCEPT ![u] = @ \cup HiddenWith(b)]
          \/ hidden' = [hidden EXCEPT ![u] = @ \ HiddenWith(b)]
      BY <2>1 DEF Hide, Restore
    <3> QED BY <1>2, <3>1, <3>2, <3>3
  <2>2. ASSUME NEW u \in Users, DeleteAccount(u) PROVE Inv'
    BY <1>2, <2>2 DEF DeleteAccount
  <2>3. ASSUME UNCHANGED hidden PROVE Inv'
    BY <1>2, <2>3
  <2> HIDE DEF Inv
  <2> QED BY <1>2, <2>1, <2>2, <2>3 DEF Next, vars, Create, Update, Delete, Export, Import
<1>3. ASSUME Inv PROVE FiledAsListed
  <2> SUFFICES ASSUME NEW u \in Users, NEW code
               PROVE  /\ ItemCategories(u, code) \subseteq Listed(u)
                      /\ ReceiptCategories(u, code) # {} =>
                          \/ \E c \in Active(u, code) : cats[c].parent = None
                          \/ \E t \in Tops \cap Listed(u) : CodeOf[t] = code
    BY DEF FiledAsListed
  <2>1. Active(u, code) \subseteq Listed(u)
    BY DEF Active, WithCode, Listed
  <2>2. ItemCategories(u, code) \subseteq Listed(u)
    BY <2>1 DEF ItemCategories, Listed
  <2>3. ASSUME NEW t \in Tops, CodeOf[t] = code, Worker[t] \notin hidden[u]
        PROVE  t \in Listed(u) \/ \E c \in Active(u, code) : cats[c].parent = None
    <3>1. t \in (Tops \cup Subs) \ hidden[u]
      BY <1>3, <2>3
    <3>2. Above(t) = None
      BY DEF Above, BuiltinAssumption
    <3> QED BY <2>3, <3>1, <3>2 DEF Listed
  <2> QED BY <2>2, <2>3 DEF ReceiptCategories
<1> HIDE DEF Inv
<1>4. Inv /\ [Next]_vars => Inv'
  BY <1>2
<1>5. Inv => FiledAsListed
  BY <1>3
<1> QED BY <1>1, <1>4, <1>5, PTL DEF Spec

-----------------------------------------------------------------------------
(* The limits of the free plan.                                            *)

\* The rows that count_user_active_custom_categories counts.
Counted(rows, v, q) ==
    {c \in DOMAIN rows : /\ rows[c].owner = v /\ rows[c].custom /\ rows[c].active
                         /\ (rows[c].parent = None) = (q = None)}

\* Only finitely many rows count, and fewer rows count less.
LEMMA CountedIsFinite ==
    ASSUME IdsAssumption, IInv, NEW v, NEW q
    PROVE  /\ IsFiniteSet(Counted(cats, v, q)) /\ Used(v, q) = Cardinality(Counted(cats, v, q))
           /\ Used(v, q) \in Nat
<1>1. Counted(cats, v, q) \subseteq Ids
  BY DEF Counted, IInv, TypeOK
<1>2. IsFiniteSet(Counted(cats, v, q))
  BY <1>1, FS_Subset DEF IdsAssumption
<1>3. Counted(cats, v, q) =
        {c \in Own(v) : /\ cats[c].custom /\ cats[c].active
                        /\ (cats[c].parent = None) = (q = None)}
  BY DEF Counted, Own
<1>4. Used(v, q) = Cardinality(Counted(cats, v, q))
  BY <1>3 DEF Used
<1> QED BY <1>2, <1>4, FS_CardinalityType

\* No step can count more than the rows that counted before, and one that is
\* let in counts once.
LEMMA CountedGrows ==
    ASSUME IdsAssumption, IInv, IInv', NEW v, NEW q
    PROVE  /\ Used(v, q) \in Nat /\ Used(v, q)' \in Nat
           /\ Counted(cats', v, q) \subseteq Counted(cats, v, q) => Used(v, q)' <= Used(v, q)
           /\ \A c : Counted(cats', v, q) \subseteq Counted(cats, v, q) \cup {c} =>
                    Used(v, q)' <= Used(v, q) + 1
<1>1. /\ IsFiniteSet(Counted(cats, v, q)) /\ Used(v, q) = Cardinality(Counted(cats, v, q))
      /\ Used(v, q) \in Nat
  BY CountedIsFinite
<1>2. /\ IsFiniteSet(Counted(cats', v, q)) /\ Used(v, q)' = Cardinality(Counted(cats', v, q))
      /\ Used(v, q)' \in Nat
  <2>1. Counted(cats', v, q) \subseteq Ids
    BY DEF Counted, IInv, TypeOK
  <2>2. IsFiniteSet(Counted(cats', v, q))
    BY <2>1, FS_Subset DEF IdsAssumption
  <2>3. Counted(cats', v, q) =
          {c \in Own(v)' : /\ cats'[c].custom /\ cats'[c].active
                           /\ (cats'[c].parent = None) = (q = None)}
    BY DEF Counted, Own
  <2>4. Used(v, q)' = Cardinality(Counted(cats', v, q))
    BY <2>3 DEF Used
  <2> QED BY <2>2, <2>4, FS_CardinalityType
<1>3. Counted(cats', v, q) \subseteq Counted(cats, v, q) => Used(v, q)' <= Used(v, q)
  BY <1>1, <1>2, FS_Subset
<1>4. ASSUME NEW c, Counted(cats', v, q) \subseteq Counted(cats, v, q) \cup {c}
      PROVE  Used(v, q)' <= Used(v, q) + 1
  <2>1. /\ IsFiniteSet(Counted(cats, v, q) \cup {c})
        /\ Cardinality(Counted(cats, v, q) \cup {c}) <= Cardinality(Counted(cats, v, q)) + 1
        /\ Cardinality(Counted(cats, v, q) \cup {c}) \in Nat
    BY <1>1, FS_AddElement, FS_CardinalityType, SMTT(30)
  <2>2. Cardinality(Counted(cats', v, q)) <= Cardinality(Counted(cats, v, q) \cup {c})
    BY <1>4, <2>1, FS_Subset
  <2> QED BY <1>1, <1>2, <2>1, <2>2
<1> QED BY <1>1, <1>2, <1>3, <1>4

\* Where nothing counts the count is zero.
LEMMA CountedIsNone ==
    ASSUME NEW v, NEW q, Counted(cats', v, q) = {}
    PROVE  Used(v, q)' = 0
<1>1. {c \in Own(v)' : /\ cats'[c].custom /\ cats'[c].active
                       /\ (cats'[c].parent = None) = (q = None)} = {}
  BY DEF Counted, Own
<1> QED BY <1>1, FS_EmptySet DEF Used

\* An import writes rows of the user only.
LEMMA ImportedRows ==
    ASSUME IInv, NEW u \in Users, Import(u)
    PROVE  /\ \A c \in DOMAIN cats : cats[c].owner # u => c \in DOMAIN cats' /\ cats'[c] = cats[c]
           /\ \A c \in DOMAIN cats' : cats'[c].owner # u => c \in DOMAIN cats /\ cats'[c] = cats[c]
<1>1. PICK m \in Targets(u) : cats' = Merged(u, m)
  BY DEF Import
<1> DEFINE Image == {m[e] : e \in file}
<1>2. \A e \in file : m[e] \in Own(u) \cup Fresh
  <2>1. \A e \in file : Wanted(u, e) \subseteq Own(u) \cup Fresh
    BY DEF Wanted, WithCode, Fresh, Entry, IInv, TypeOK
  <2> QED BY <2>1 DEF Targets
<1>3. DOMAIN cats' = DOMAIN cats \cup Image
  BY <1>1 DEF Merged
<1>4. \A c \in DOMAIN cats \ Image : cats'[c] = cats[c]
  BY <1>1 DEF Merged
<1>5. \A c \in Image : cats'[c].owner = u
  <2> SUFFICES ASSUME NEW c \in Image PROVE cats'[c].owner = u
    OBVIOUS
  <2>1. c \in DOMAIN cats \cup Image /\ \E e \in file : m[e] = c
    OBVIOUS
  <2> QED BY <1>1, <2>1 DEF Merged
<1>6. \A c \in Image : c \in DOMAIN cats => cats[c].owner = u
  BY <1>2 DEF Own, Fresh
<1> QED BY <1>3, <1>4, <1>5, <1>6

\* What a row that is stored changes: nothing for others, nothing if it does not
\* count or counted before, and otherwise it counts once more on its level.
LEMMA StoreCounts ==
    ASSUME IdsAssumption, IInv, IInv', NEW u, NEW c, NEW row, Store(c, row), row.owner = u,
           NEW v, NEW q
    PROVE  /\ Used(v, q)' <= Used(v, q) + 1
           /\ (c \in Counted(cats', v, q) => c \in Counted(cats, v, q)) =>
                Used(v, q)' <= Used(v, q)
           /\ c \in Counted(cats', v, q) =>
                /\ v = u /\ row.custom /\ row.active
                /\ (row.parent = None) = (q = None)
<1>1. /\ DOMAIN cats' = DOMAIN cats \cup {c} /\ cats'[c] = row
      /\ \A d \in DOMAIN cats \ {c} : cats'[d] = cats[d]
  BY DEF Store
<1>2. Counted(cats', v, q) \subseteq Counted(cats, v, q) \cup {c}
  BY <1>1 DEF Counted
<1>3. (c \in Counted(cats', v, q) => c \in Counted(cats, v, q)) =>
        Counted(cats', v, q) \subseteq Counted(cats, v, q)
  BY <1>2
<1>4. c \in Counted(cats', v, q) => /\ v = u /\ row.custom /\ row.active
                                    /\ (row.parent = None) = (q = None)
  BY <1>1 DEF Counted
<1> QED BY <1>2, <1>3, <1>4, CountedGrows

\* One case for each action that changes rows or who has imported.
LEMMA LimitsKept ==
    ASSUME BuiltinAssumption, LimitsAssumption, IdsAssumption, IInv, IInv', WithinFreeLimits,
           [Next]_vars
    PROVE  WithinFreeLimits'
<1> SUFFICES ASSUME NEW v \in Users, v \notin premium', v \notin imported', NEW q \in {None, v}
             PROVE  Used(v, q)' <= (IF q = None THEN Limit ELSE SubLimit)
  BY DEF WithinFreeLimits, IdsAssumption
<1> DEFINE Bound(p) == IF p = None THEN Limit ELSE SubLimit
<1>1. Used(v, q) \in Nat /\ Used(v, q)' \in Nat /\ Bound(q) \in Nat
  BY CountedGrows DEF LimitsAssumption
<1>2. v \notin imported => Used(v, q) <= Bound(q)
  BY DEF WithinFreeLimits, IdsAssumption, Next, vars, Create, Update, Delete, Hide, Restore,
         Export, Import, DeleteAccount
<1>3. ASSUME v \notin imported, Used(v, q)' <= Used(v, q) PROVE Used(v, q)' <= Bound(q)
  <2> HIDE DEF Bound
  <2> QED BY <1>1, <1>2, <1>3
<1>4. ASSUME UNCHANGED <<cats, imported>> PROVE Used(v, q)' <= Bound(q)
  <2>1. Counted(cats', v, q) \subseteq Counted(cats, v, q)
    BY <1>4
  <2> QED BY <1>3, <1>4, <2>1, CountedGrows
<1>5. ASSUME NEW u \in Users, NEW code \in Codes, NEW p \in Parents, Create(u, code, p)
      PROVE  Used(v, q)' <= Bound(q)
  <2> DEFINE row == [owner |-> u, code |-> code, parent |-> p, active |-> TRUE, custom |-> TRUE]
  <2>1. PICK c \in NewId \cup WithCode(u, code) : Store(c, row)
    BY <1>5 DEF Create
  <2>2. MayActivate(u, p) /\ UNCHANGED <<premium, imported>>
    BY <1>5 DEF Create
  <2>3. row.owner = u /\ row.parent = p
    OBVIOUS
  <2> HIDE DEF row
  <2>4. CASE c \in Counted(cats', v, q)
    <3>1. v = u /\ (p = None) = (q = None)
      BY <2>1, <2>3, <2>4, StoreCounts
    <3>2. Used(u, p) = Used(v, q) /\ Bound(p) = Bound(q)
      BY <3>1 DEF Used
    <3>3. Used(u, p) < Bound(p)
      BY <2>2, <3>1 DEF MayActivate
    <3>4. Used(v, q)' <= Used(v, q) + 1
      BY <2>1, <2>3, StoreCounts
    <3> HIDE DEF Bound
    <3> QED BY <1>1, <3>2, <3>3, <3>4
  <2>5. CASE c \notin Counted(cats', v, q)
    BY <1>3, <2>1, <2>2, <2>3, <2>5, StoreCounts
  <2> QED BY <2>4, <2>5
<1>6. ASSUME NEW u \in Users, NEW c \in Ids, NEW p \in Parents, Update(u, c, p)
      PROVE  Used(v, q)' <= Bound(q)
  <2> DEFINE row == [cats[c] EXCEPT !.parent = p]
  <2>1. /\ c \in DOMAIN cats /\ cats[c].owner = u /\ cats[c] \in Row
        /\ Store(c, row) /\ UNCHANGED <<premium, imported>>
        /\ cats[c].active /\ (cats[c].parent = None) # (p = None) => MayActivate(u, p)
    BY <1>6 DEF Update, Own, IInv, TypeOK
  <2>2. /\ row.owner = u /\ row.parent = p
        /\ row.custom = cats[c].custom /\ row.active = cats[c].active
    BY <2>1 DEF Row
  <2> HIDE DEF row
  <2>3. CASE c \in Counted(cats', v, q) /\ c \notin Counted(cats, v, q)
    <3>1. v = u /\ (p = None) = (q = None) /\ row.custom /\ row.active
      BY <2>1, <2>2, <2>3, StoreCounts
    <3>2. MayActivate(u, p)
      BY <2>1, <2>2, <2>3, <3>1 DEF Counted
    <3>3. Used(u, p) = Used(v, q) /\ Bound(p) = Bound(q)
      BY <3>1 DEF Used
    <3>4. Used(u, p) < Bound(p)
      BY <2>1, <3>1, <3>2 DEF MayActivate
    <3>5. Used(v, q)' <= Used(v, q) + 1
      BY <2>1, <2>2, StoreCounts
    <3> HIDE DEF Bound
    <3> QED BY <1>1, <3>3, <3>4, <3>5
  <2>4. CASE c \in Counted(cats', v, q) => c \in Counted(cats, v, q)
    BY <1>3, <2>1, <2>2, <2>4, StoreCounts
  <2> QED BY <2>3, <2>4
<1>7. ASSUME NEW u \in Users, NEW c \in Ids, Delete(u, c) PROVE Used(v, q)' <= Bound(q)
  <2> DEFINE row == [cats[c] EXCEPT !.active = FALSE]
  <2>1. /\ c \in DOMAIN cats /\ cats[c].owner = u /\ cats[c] \in Row
        /\ Store(c, row) /\ UNCHANGED imported
    BY <1>7 DEF Delete, Own, IInv, TypeOK
  <2>2. row.owner = u /\ ~row.active
    BY <2>1 DEF Row
  <2> HIDE DEF row
  <2> QED BY <1>3, <2>1, <2>2, StoreCounts
<1>8. ASSUME NEW u \in Users, Import(u) PROVE Used(v, q)' <= Bound(q)
  <2>1. v # u /\ v \notin imported
    BY <1>8 DEF Import
  <2>2. Counted(cats', v, q) \subseteq Counted(cats, v, q)
    <3> SUFFICES ASSUME NEW c \in DOMAIN cats', cats'[c].owner # u
                 PROVE  c \in DOMAIN cats /\ cats'[c] = cats[c]
      BY <2>1 DEF Counted
    <3> QED BY <1>8, ImportedRows
  <2> QED BY <1>3, <2>1, <2>2, CountedGrows
<1>9. ASSUME NEW u \in Users, DeleteAccount(u) PROVE Used(v, q)' <= Bound(q)
  <2>1. /\ DOMAIN cats' = DOMAIN cats \ Own(u) /\ imported' = imported \ {u}
        /\ \A c \in DOMAIN cats' : cats'[c] = cats[c]
    BY <1>9 DEF DeleteAccount
  <2>2. Counted(cats', v, q) \subseteq Counted(cats, v, q)
    BY <2>1 DEF Counted
  <2>3. CASE v = u
    <3>1. Counted(cats', v, q) = {}
      BY <2>1, <2>3 DEF Counted, Own
    <3>2. Used(v, q)' = 0
      BY <3>1, CountedIsNone
    <3> HIDE DEF Bound
    <3> QED BY <1>1, <3>2
  <2>4. CASE v # u
    BY <1>3, <2>1, <2>2, <2>4, CountedGrows
  <2> QED BY <2>3, <2>4
<1>10. CASE UNCHANGED vars
  BY <1>4, <1>10 DEF vars
<1>11. CASE Next
  <2>1. ASSUME NEW u \in Users, NEW b \in Tops \cup Subs, Hide(u, b) \/ Restore(u, b)
        PROVE  Used(v, q)' <= Bound(q)
    BY <1>4, <2>1 DEF Hide, Restore
  <2>2. ASSUME NEW u \in Users, Export(u) PROVE Used(v, q)' <= Bound(q)
    BY <1>4, <2>2 DEF Export
  <2> QED BY <1>5, <1>6, <1>7, <1>8, <1>9, <1>11, <2>1, <2>2 DEF Next
<1> QED BY <1>10, <1>11

\* A user who cannot pay for more never has more than the limits, through any
\* creation, restoration, move and deletion, as long as nothing is imported.
THEOREM LimitsTheorem ==
    ASSUME BuiltinAssumption, LimitsAssumption, IdsAssumption PROVE Spec => []WithinFreeLimits
<1> DEFINE Inv == IInv /\ WithinFreeLimits
<1>1. Init => Inv
  <2> SUFFICES ASSUME Init PROVE Inv
    OBVIOUS
  <2>1. IInv
    BY InitHolds
  <2>2. \A v \in Users : \A q \in {None, v} : Used(v, q) = 0
    <3> SUFFICES ASSUME NEW v \in Users, NEW q \in {None, v} PROVE Used(v, q) = 0
      OBVIOUS
    <3>1. {c \in Own(v) : /\ cats[c].custom /\ cats[c].active
                          /\ (cats[c].parent = None) = (q = None)} = {}
      BY DEF Own, Init
    <3> QED BY <3>1, FS_EmptySet DEF Used
  <2> QED BY <2>1, <2>2 DEF WithinFreeLimits, LimitsAssumption
<1>2. Inv /\ [Next]_vars => Inv'
  BY NextKept, LimitsKept
<1>3. Inv => WithinFreeLimits
  OBVIOUS
<1> QED BY <1>1, <1>2, <1>3, PTL DEF Spec

-----------------------------------------------------------------------------
(* What an import changes.                                                 *)

\* What was just exported goes where it came from.
LEMMA ImportOfExported ==
    ASSUME BuiltinAssumption, IInv, cats = [c \in DOMAIN cats |-> cats[c]],
           NEW u \in Users, Import(u), file = Exported(u)
    PROVE  cats' = cats
<1>1. PICK m \in Targets(u) : cats' = Merged(u, m)
  BY DEF Import
<1>2. /\ \A e \in file : e.id \in Own(u)
      /\ \A e \in file : /\ e.code = cats[e.id].code /\ e.parent = cats[e.id].parent
                         /\ e.active = cats[e.id].active
      /\ \A c \in Own(u) : \E e \in file : e.id = c
  <2>1. \A e \in file : /\ e.id \in Own(u)
                        /\ e.code = cats[e.id].code /\ e.parent = cats[e.id].parent
                        /\ e.active = cats[e.id].active
    BY DEF Exported
  <2>2. ASSUME NEW c \in Own(u) PROVE \E e \in file : e.id = c
    <3> DEFINE entry == [id |-> c, code |-> cats[c].code, parent |-> cats[c].parent,
                         active |-> cats[c].active]
    <3>1. entry \in file /\ entry.id = c
      BY DEF Exported
    <3> QED BY <3>1
  <2> QED BY <2>1, <2>2
<1>3. \A e, f \in file : e.id = f.id => e = f
  BY DEF IInv, FileRooted
<1>4. \A e \in file : m[e] = e.id
  <2> SUFFICES ASSUME NEW e \in file PROVE m[e] = e.id
    OBVIOUS
  <2>1. \A f \in file : Wanted(u, f) = {f.id}
    BY <1>2 DEF Wanted
  <2>2. \A f \in file : m[f] = f.id \/ m[f] \in Fresh
    BY <2>1 DEF Targets
  <2>3. e.id \notin Fresh
    BY <1>2 DEF Own, Fresh
  <2>4. ASSUME NEW f \in file \ {e}, m[f] \in Wanted(u, e) PROVE FALSE
    BY <1>3, <2>1, <2>2, <2>3, <2>4
  <2> QED BY <2>1, <2>4 DEF Targets
<1>5. {m[e] : e \in file} = Own(u)
  BY <1>2, <1>4
<1>6. DOMAIN cats' = DOMAIN cats
  BY <1>1, <1>5 DEF Merged, Own
<1>7. cats' = [c \in DOMAIN cats' |-> cats'[c]]
  BY <1>1 DEF Merged
<1>8. \A c \in DOMAIN cats \ Own(u) : cats'[c] = cats[c]
  BY <1>1, <1>5 DEF Merged
<1>9. \A c \in Own(u) : cats'[c] = cats[c]
  <2> SUFFICES ASSUME NEW c \in Own(u) PROVE cats'[c] = cats[c]
    OBVIOUS
  <2>1. PICK e \in file : e.id = c
    BY <1>2
  <2>2. (CHOOSE f \in file : m[f] = c) = e
    BY <1>3, <1>4, <2>1
  <2>3. NewParent(m, e.parent) = e.parent
    <3>1. CASE \E f \in file : f.id = e.parent
      <4>1. PICK f \in file : f.id = e.parent
        BY <3>1
      <4>2. (CHOOSE g \in file : g.id = e.parent) = f
        BY <1>3, <4>1
      <4> QED BY <1>4, <3>1, <4>1, <4>2 DEF NewParent
    <3>2. CASE ~\E f \in file : f.id = e.parent
      <4>1. e.parent \in Tops \cup {None}
        BY <3>2 DEF IInv, FileRooted
      <4> QED BY <3>2, <4>1 DEF NewParent
    <3> QED BY <3>1, <3>2
  <2>4. c \in DOMAIN cats /\ cats[c].owner = u /\ cats[c] \in Row
    BY DEF Own, IInv, TypeOK
  <2> DEFINE custom == c \in DOMAIN cats /\ cats[c].custom
  <2>5. cats'[c] = [owner |-> u, code |-> e.code, parent |-> NewParent(m, e.parent),
                    active |-> e.active, custom |-> custom]
    BY <1>1, <1>4, <2>1, <2>2, <2>4 DEF Merged
  <2>6. custom = cats[c].custom
    BY <2>4 DEF Row
  <2> HIDE DEF custom
  <2>7. cats'[c] = [owner |-> cats[c].owner, code |-> cats[c].code, parent |-> cats[c].parent,
                    active |-> cats[c].active, custom |-> cats[c].custom]
    BY <1>2, <2>1, <2>3, <2>4, <2>5, <2>6
  <2> QED BY <2>4, <2>7 DEF Row
<1> QED BY <1>6, <1>7, <1>8, <1>9

\* An import touches no row of another user, and importing what was just exported
\* changes nothing.
THEOREM ImportTheorem == ASSUME BuiltinAssumption PROVE Spec => ImportsMerge
<1> DEFINE Inv == IInv /\ cats = [c \in DOMAIN cats |-> cats[c]]
           Merges == \A u \in Users : ImportKeeps(u) \/ ~Import(u)
<1>1. Init => Inv
  <2>1. Init => cats = [c \in DOMAIN cats |-> cats[c]]
    BY DEF Init
  <2> QED BY <2>1, InitHolds
<1>2. Inv /\ [Next]_vars => Inv'
  <2>1. Inv /\ [Next]_vars => cats' = [c \in DOMAIN cats' |-> cats'[c]]
    <3> SUFFICES ASSUME Inv, [Next]_vars PROVE cats' = [c \in DOMAIN cats' |-> cats'[c]]
      OBVIOUS
    <3>1. CASE UNCHANGED vars
      BY <3>1 DEF vars
    <3>2. ASSUME NEW u \in Users, Import(u) PROVE cats' = [c \in DOMAIN cats' |-> cats'[c]]
      BY <3>2 DEF Import, Merged
    <3>3. ASSUME NEW u \in Users, NEW b \in Tops \cup Subs, Hide(u, b) \/ Restore(u, b)
          PROVE  cats' = [c \in DOMAIN cats' |-> cats'[c]]
      BY <3>3 DEF Hide, Restore
    <3>4. CASE Next
      <4> DEFINE Filled == cats' = [c \in DOMAIN cats' |-> cats'[c]]
      <4>1. \A c, row : Store(c, row) => Filled
        BY DEF Store
      <4>2. \A u \in Users : Export(u) \/ DeleteAccount(u) => Filled
        BY DEF Export, DeleteAccount
      <4>3. \A u \in Users, b \in Tops \cup Subs : Hide(u, b) \/ Restore(u, b) => Filled
        BY <3>3
      <4>4. \A u \in Users : Import(u) => Filled
        BY <3>2
      <4> HIDE DEF Filled
      <4>5. \A u, code, p : Create(u, code, p) => Filled
        BY <4>1 DEF Create
      <4>6. \A u, c, p : Update(u, c, p) => Filled
        BY <4>1 DEF Update
      <4>7. \A u, c : Delete(u, c) => Filled
        BY <4>1 DEF Delete
      <4>8. Filled
        BY <3>4, <4>2, <4>3, <4>4, <4>5, <4>6, <4>7 DEF Next
      <4> QED BY <4>8 DEF Filled
    <3> QED BY <3>1, <3>4
  <2> QED BY <2>1, NextKept
<1>3. Inv /\ [Next]_vars => [Merges]_vars
  <2> SUFFICES ASSUME Inv, NEW u \in Users, Import(u) PROVE ImportKeeps(u)
    OBVIOUS
  <2>1. ASSUME NEW c \in DOMAIN cats, cats[c].owner # u
        PROVE  c \in DOMAIN cats' /\ cats'[c] = cats[c]
    BY <2>1, ImportedRows
  <2>2. file = Exported(u) => cats' = cats
    BY ImportOfExported
  <2> QED BY <2>1, <2>2 DEF ImportKeeps
<1> QED BY <1>1, <1>2, <1>3, PTL DEF Spec, ImportsMerge

-----------------------------------------------------------------------------
(* The last of some days.                                                  *)

\* There is a last one among the days of a set that is not empty: the days after
\* it are the fewest, and there is no infinite descent of finite sets.
LEMMA LatestRateIsThere ==
    ASSUME LastDay \in Nat, NEW S \in SUBSET Rates!Days, S # {}
    PROVE  Rates!Latest(S) \in S
<1> DEFINE After(d) == {e \in S : e > d}
           T == {After(d) : d \in S}
<1>1. IsFiniteSet(Rates!Days)
  BY FS_Interval DEF Rates!Days
<1>2. T \subseteq FiniteSubsetsOf(Rates!Days)
  <2> SUFFICES ASSUME NEW d \in S PROVE After(d) \in FiniteSubsetsOf(Rates!Days)
    OBVIOUS
  <2>1. After(d) \in SUBSET Rates!Days
    OBVIOUS
  <2>2. IsFiniteSet(After(d))
    BY <1>1, <2>1, FS_Subset
  <2> QED BY <2>1, <2>2 DEF FiniteSubsetsOf
<1>3. PICK x \in T : \A y \in T : <<y, x>> \notin StrictSubsetOrdering(Rates!Days)
  <2>1. T # {}
    OBVIOUS
  <2>2. IsWellFoundedOn(StrictSubsetOrdering(Rates!Days), FiniteSubsetsOf(Rates!Days))
    BY FS_StrictSubsetOrderingWellFounded
  <2> HIDE DEF T
  <2> QED BY <1>2, <2>1, <2>2, WFMin
<1>4. PICK d \in S : x = After(d)
  BY <1>3
<1>5. ASSUME NEW e \in S, e > d PROVE FALSE
  <2>1. d \in Nat /\ e \in Nat
    BY DEF Rates!Days
  <2>2. After(e) \subseteq After(d)
    <3> SUFFICES ASSUME NEW g \in S, g > e PROVE g > d
      OBVIOUS
    <3>1. g \in Nat
      BY DEF Rates!Days
    <3> QED BY <1>5, <2>1, <3>1
  <2>3. e \in After(d) /\ e \notin After(e)
    BY <1>5, <2>1
  <2>4. After(e) \in SUBSET Rates!Days /\ After(d) \in SUBSET Rates!Days
    OBVIOUS
  <2>5. After(e) \in T
    OBVIOUS
  <2> HIDE DEF After, T
  <2>6. <<After(e), After(d)>> \in StrictSubsetOrdering(Rates!Days)
    BY <2>2, <2>3, <2>4 DEF StrictSubsetOrdering
  <2> QED BY <1>3, <1>4, <2>5, <2>6
<1>6. \A e \in S : e <= d
  <2> SUFFICES ASSUME NEW e \in S PROVE e <= d
    OBVIOUS
  <2>1. e \in Nat /\ d \in Nat
    BY DEF Rates!Days
  <2> QED BY <1>5, <2>1
<1> HIDE DEF T, After
<1> QED BY <1>6 DEF Rates!Latest

-----------------------------------------------------------------------------
(* The inductive invariant.                                                *)

\* Under every day is a rate that is honest about it, whoever it is from.
KeptUnderItsDay == \A d \in Rates!Stored : Rates!Honest(cached[d].rate, d, cached[d].fallback)

RatesIInv == Rates!TypeOK /\ KeptUnderItsDay /\ Rates!RatesAreHonest

RatesAssumptions == Rates!DaysAssumption /\ Rates!NoneAssumption

\* What a provider answers is honest, and marked when it says another day than was
\* asked for.
LEMMA FetchedIsHonest ==
    ASSUME RatesAssumptions, Rates!TypeOK, NEW target \in Rates!Days, NEW f \in Rates!Fetched(target) \ {None}
    PROVE  /\ f \in Rates!Lookup
           /\ Rates!Honest(f.rate, f.date, f.fallback)
           /\ f.date # target => f.fallback
<1>1. ASSUME NEW by \in {"frankfurter", "currency_api"}, NEW d \in Rates!Days,
             NEW latest \in BOOLEAN, f \in Rates!Readings(by, d, latest, target)
      PROVE  /\ f \in Rates!Lookup
             /\ f.rate.by = by /\ f.rate.of = d
             /\ f.date = d \/ (f.date = target /\ ~f.rate.dated)
             /\ latest => f.fallback
             /\ f.date # target => f.fallback
  <2>1. PICK date \in {d, target}, dated \in BOOLEAN :
          /\ f = [rate |-> [by |-> by, of |-> d, dated |-> dated], date |-> date,
                  fallback |-> latest \/ date # target]
          /\ date = d \/ (date = target /\ ~dated)
    BY <1>1, Zenon DEF Rates!Readings
  <2> DEFINE kept == [by |-> by, of |-> d, dated |-> dated]
             mark == latest \/ date # target
  <2>2. kept \in Rates!Rate /\ date \in Rates!Days /\ mark \in BOOLEAN
    BY DEF Rates!Rate
  <2>3. f = [rate |-> kept, date |-> date, fallback |-> mark]
    BY <2>1
  <2>4. kept.by = by /\ kept.of = d /\ kept.dated = dated
    OBVIOUS
  <2>5. (latest => mark) /\ (date # target => mark)
    OBVIOUS
  <2> HIDE DEF kept, mark
  <2>6. f \in Rates!Lookup /\ f.rate = kept /\ f.date = date /\ f.fallback = mark
    BY <2>2, <2>3 DEF Rates!Lookup
  <2> QED BY <2>1, <2>4, <2>5, <2>6, Zenon
<1>2. CASE f \in Rates!FromFrankfurter(target)
  <2>1. PICK known \in SUBSET {d \in Business : d <= target} :
          known # {} /\ f \in Rates!Readings("frankfurter", Rates!Latest(known), FALSE, target)
    BY <1>2 DEF Rates!FromFrankfurter
  <2>2. Rates!Latest(known) \in known
    BY <2>1, LatestRateIsThere DEF RatesAssumptions, Rates!DaysAssumption, Rates!Days
  <2> DEFINE d == Rates!Latest(known)
  <2>3. d \in Rates!Days /\ d <= target
    BY <2>2 DEF RatesAssumptions, Rates!DaysAssumption, Rates!Days
  <2>4. f \in Rates!Readings("frankfurter", d, FALSE, target)
    BY <2>1
  <2> HIDE DEF d
  <2>5. /\ f \in Rates!Lookup
        /\ f.rate.by = "frankfurter" /\ f.rate.of = d
        /\ f.date = d \/ (f.date = target /\ ~f.rate.dated)
        /\ f.date # target => f.fallback
    BY <1>1, <2>3, <2>4
  <2>6. f.rate.of = f.date \/ (~f.rate.dated /\ f.rate.of < f.date)
    BY <2>3, <2>5 DEF Rates!Days
  <2> QED BY <2>5, <2>6 DEF Rates!Honest
<1>3. CASE f \in Rates!FromCurrencyApi(target)
  <2>1. PICK d \in Rates!Days, latest \in BOOLEAN :
          (~latest => d = target) /\ f \in Rates!Readings("currency_api", d, latest, target)
    BY <1>3 DEF Rates!FromCurrencyApi
  <2>2. /\ f \in Rates!Lookup
        /\ f.rate.by = "currency_api" /\ f.rate.of = d
        /\ f.date = d \/ (f.date = target /\ ~f.rate.dated)
        /\ latest => f.fallback
        /\ f.date # target => f.fallback
    BY <1>1, <2>1
  <2>3. f.rate.of = f.date \/ (~f.rate.dated /\ f.fallback)
    BY <2>1, <2>2
  <2> QED BY <2>2, <2>3 DEF Rates!Honest
<1> QED BY <1>2, <1>3 DEF Rates!Fetched

-----------------------------------------------------------------------------
(* The actions.                                                            *)

\* The rate of the day itself is stored.
LEMMA ExactRateKept ==
    ASSUME RatesAssumptions, RatesIInv, NEW target \in Rates!Days, Rates!Exact(target)
    PROVE  RatesIInv'
<1>1. /\ cached[target] \in Rates!Row
      /\ Rates!Honest(cached[target].rate, target, cached[target].fallback)
  BY DEF Rates!Exact, RatesIInv, Rates!TypeOK, KeptUnderItsDay, Rates!Stored
<1>2. Rates!FromRow(target, cached[target].fallback) \in Rates!Lookup
  BY <1>1 DEF Rates!FromRow, Rates!Lookup, Rates!Row
<1>3. rate' \in [asked : Rates!Days, lookup : Rates!Lookup \cup {None}]
  BY <1>2 DEF Rates!Exact
<1>4. /\ Rates!Honest(rate'.lookup.rate, rate'.lookup.date, rate'.lookup.fallback)
      /\ rate'.lookup.date = rate'.asked
  <2>1. /\ rate'.lookup.rate = cached[target].rate
        /\ rate'.lookup.date = target /\ rate'.asked = target
    BY DEF Rates!Exact, Rates!FromRow
  <2>2. rate'.lookup.fallback = cached[target].fallback
    BY DEF Rates!Exact, Rates!FromRow
  <2> QED BY <1>1, <2>1, <2>2
<1> QED BY <1>3, <1>4 DEF Rates!Exact, RatesIInv, Rates!TypeOK, KeptUnderItsDay, Rates!Stored, Rates!RatesAreHonest

\* A rate is fetched and stored under the day it is of.
LEMMA FetchedRateKept ==
    ASSUME RatesAssumptions, RatesIInv, NEW target \in Rates!Days, Rates!Fetch(target)
    PROVE  RatesIInv'
<1>1. PICK f \in Rates!Fetched(target) \ {None} :
        /\ cached' = [cached EXCEPT ![f.date] = [rate |-> f.rate, fallback |-> f.fallback]]
        /\ rate' = [asked |-> target, lookup |-> f]
  BY DEF Rates!Fetch, Rates!KeptUnder
<1>2. f \in Rates!Lookup /\ Rates!Honest(f.rate, f.date, f.fallback) /\ (f.date # target => f.fallback)
  BY FetchedIsHonest DEF RatesIInv
<1> DEFINE entry == [rate |-> f.rate, fallback |-> f.fallback]
<1>3. entry \in Rates!Row /\ f.date \in Rates!Days
  BY <1>2 DEF Rates!Row, Rates!Lookup
<1>9. Rates!Honest(entry.rate, f.date, entry.fallback)
  BY <1>2
<1> HIDE DEF entry
<1>4. cached' = [cached EXCEPT ![f.date] = entry]
  BY <1>1 DEF entry
<1>5. cached' \in [Rates!Days -> Rates!Row \cup {None}]
  BY <1>3, <1>4 DEF RatesIInv, Rates!TypeOK
<1>6. KeptUnderItsDay'
  BY <1>3, <1>4, <1>9 DEF RatesIInv, Rates!TypeOK, KeptUnderItsDay, Rates!Stored
<1>7. rate' \in [asked : Rates!Days, lookup : Rates!Lookup \cup {None}]
  BY <1>1, <1>2
<1>8. Rates!RatesAreHonest'
  BY <1>1, <1>2 DEF Rates!RatesAreHonest
<1> QED BY <1>5, <1>6, <1>7, <1>8 DEF Rates!Fetch, RatesIInv, Rates!TypeOK

\* A rate of another day is taken from what is stored.
LEMMA FallbackRateKept ==
    ASSUME RatesAssumptions, RatesIInv, NEW target \in Rates!Days, Rates!Fallback(target)
    PROVE  RatesIInv'
<1>1. UNCHANGED <<cached, pair, rateDay>>
  BY DEF Rates!Fallback
<1>2. ASSUME NEW d \in Rates!Stored
      PROVE  /\ Rates!FromRow(d, TRUE) \in Rates!Lookup
             /\ Rates!Honest(Rates!FromRow(d, TRUE).rate, Rates!FromRow(d, TRUE).date, TRUE)
             /\ Rates!FromRow(d, TRUE).fallback
  <2>1. d \in Rates!Days /\ cached[d] \in Rates!Row /\ Rates!Honest(cached[d].rate, d, cached[d].fallback)
    BY <1>2 DEF RatesIInv, Rates!TypeOK, KeptUnderItsDay, Rates!Stored
  <2>2. Rates!Honest(cached[d].rate, d, TRUE)
    BY <2>1 DEF Rates!Honest
  <2> QED BY <2>1, <2>2 DEF Rates!FromRow, Rates!Lookup, Rates!Row
<1>3. \/ rate' = [asked |-> target, lookup |-> None]
      \/ \E d \in Rates!Stored : rate' = [asked |-> target, lookup |-> Rates!FromRow(d, TRUE)]
  <2>1. LastDay \in Nat /\ Rates!Stored \in SUBSET Rates!Days
    BY DEF RatesAssumptions, Rates!DaysAssumption, Rates!Stored
  <2> DEFINE before == {d \in Rates!Stored : d <= target}
  <2>2. before # {} => Rates!Latest(before) \in Rates!Stored
    <3>1. before \in SUBSET Rates!Days BY <2>1
    <3>2. before # {} => Rates!Latest(before) \in before BY <2>1, <3>1, LatestRateIsThere
    <3> QED BY <3>2
  <2>3. Rates!Stored # {} => Rates!Latest(Rates!Stored) \in Rates!Stored
    BY <2>1, LatestRateIsThere
  <2> QED BY <2>2, <2>3 DEF Rates!Fallback
<1>4. /\ rate' \in [asked : Rates!Days, lookup : Rates!Lookup \cup {None}]
      /\ Rates!RatesAreHonest'
  <2>1. CASE rate' = [asked |-> target, lookup |-> None]
    BY <2>1 DEF Rates!RatesAreHonest
  <2>2. ASSUME NEW d \in Rates!Stored, rate' = [asked |-> target, lookup |-> Rates!FromRow(d, TRUE)]
        PROVE  /\ rate' \in [asked : Rates!Days, lookup : Rates!Lookup \cup {None}]
               /\ Rates!RatesAreHonest'
    <3> DEFINE entry == Rates!FromRow(d, TRUE)
    <3>1. entry \in Rates!Lookup /\ Rates!Honest(entry.rate, entry.date, TRUE) /\ entry.fallback
      BY <1>2
    <3>2. rate' = [asked |-> target, lookup |-> entry]
      BY <2>2
    <3> HIDE DEF entry
    <3>3. rate' \in [asked : Rates!Days, lookup : Rates!Lookup \cup {None}]
      BY <3>1, <3>2
    <3>4. rate'.lookup = entry
      BY <3>2
    <3>5. Rates!Honest(entry.rate, entry.date, entry.fallback)
      BY <3>1 DEF Rates!Honest
    <3> QED BY <3>1, <3>3, <3>4, <3>5 DEF Rates!RatesAreHonest
  <2> QED BY <1>3, <2>1, <2>2
<1> QED BY <1>1, <1>4 DEF RatesIInv, Rates!TypeOK, KeptUnderItsDay, Rates!Stored

-----------------------------------------------------------------------------
(* The theorems.                                                           *)

\* Nothing is stored at first.
LEMMA RatesInitHolds == ASSUME RatesAssumptions, Rates!Init PROVE RatesIInv
  BY DEF RatesAssumptions, Rates!DaysAssumption, Rates!Days, Rates!Init, RatesIInv, Rates!TypeOK, KeptUnderItsDay, Rates!Stored, Rates!RatesAreHonest

\* One case for each action.
LEMMA RatesNextKept == ASSUME RatesAssumptions, RatesIInv, [Rates!Next]_(Rates!vars) PROVE RatesIInv'
<1>1. CASE UNCHANGED Rates!vars
  BY <1>1 DEF Rates!vars, RatesIInv, Rates!TypeOK, KeptUnderItsDay, Rates!Stored, Rates!RatesAreHonest
<1>2. CASE Rates!Tomorrow
  <2>1. rateDay' \in Rates!Days
    BY <1>2 DEF Rates!Tomorrow, RatesIInv, Rates!TypeOK, Rates!Days, RatesAssumptions, Rates!DaysAssumption
  <2> QED BY <1>2, <2>1 DEF Rates!Tomorrow, RatesIInv, Rates!TypeOK, KeptUnderItsDay, Rates!Stored, Rates!RatesAreHonest
<1>3. ASSUME NEW d \in Rates!Days, Rates!Exact(d) \/ Rates!Fetch(d) \/ Rates!Fallback(d) PROVE RatesIInv'
  BY <1>3, ExactRateKept, FetchedRateKept, FallbackRateKept
<1> QED BY <1>1, <1>2, <1>3 DEF Rates!Next

\* The variables keep their types.
THEOREM RateTypes == ASSUME RatesAssumptions PROVE Rates!Spec => []Rates!TypeOK
<1>1. Rates!Init => RatesIInv BY RatesInitHolds
<1>2. RatesIInv /\ [Rates!Next]_(Rates!vars) => RatesIInv' BY RatesNextKept
<1>3. RatesIInv => Rates!TypeOK BY DEF RatesIInv
<1> QED BY <1>1, <1>2, <1>3, PTL DEF Rates!Spec

\* A lookup answers with a rate of the day it is said to be of, or one that came
\* without a date; it is marked when that is not the day asked for.
THEOREM RatesTheorem == ASSUME RatesAssumptions PROVE Rates!Spec => []Rates!RatesAreHonest
<1>1. Rates!Init => RatesIInv BY RatesInitHolds
<1>2. RatesIInv /\ [Rates!Next]_(Rates!vars) => RatesIInv' BY RatesNextKept
<1>3. RatesIInv => Rates!RatesAreHonest BY DEF RatesIInv
<1> QED BY <1>1, <1>2, <1>3, PTL DEF Rates!Spec

-----------------------------------------------------------------------------
(* Calendars: months of any lengths.                                       *)

\* The first day of each month, and the day after the last.
Starts(lengths) ==
    CHOOSE f : f = [m \in 1..(Len(lengths) + 1) |-> IF m = 1 THEN 1 ELSE f[m - 1] + lengths[m - 1]]

\* A month begins where the one before it ends.
LEMMA StartsOfMonths ==
    ASSUME NEW lengths \in Seq(Nat \ {0})
    PROVE  /\ Starts(lengths) \in [1..(Len(lengths) + 1) -> Nat \ {0}]
           /\ Starts(lengths)[1] = 1
           /\ \A m \in 1..Len(lengths) : Starts(lengths)[m + 1] = Starts(lengths)[m] + lengths[m]
<1> DEFINE N == Len(lengths)
           Fits(f, n) == /\ f \in [1..(n + 1) -> Nat \ {0}] /\ f[1] = 1
                         /\ \A m \in 1..n : f[m + 1] = f[m] + lengths[m]
           S == {n \in 0..N : \E f : Fits(f, n)}
           Unfolded(f) == [m \in 1..(N + 1) |-> IF m = 1 THEN 1 ELSE f[m - 1] + lengths[m - 1]]
<1>1. N \in Nat /\ \A m \in 1..N : lengths[m] \in Nat \ {0}
  OBVIOUS
<1>2. 0 \in S
  <2> DEFINE g == [m \in 1..(0 + 1) |-> 1]
  <2>1. g \in [1..(0 + 1) -> Nat \ {0}] /\ g[1] = 1 /\ 1..0 = {}
    OBVIOUS
  <2> HIDE DEF g
  <2>2. Fits(g, 0)
    BY <2>1
  <2>3. 0 \in 0..N
    BY <1>1
  <2> HIDE DEF Fits
  <2> QED BY <2>2, <2>3
<1>3. ASSUME NEW n \in 0..N, n # 0, n - 1 \in S PROVE n \in S
  <2>1. PICK f : Fits(f, n - 1)
    BY <1>3
  <2> DEFINE g == [m \in 1..(n + 1) |-> IF m = n + 1 THEN f[n] + lengths[n] ELSE f[m]]
  <2>2. f \in [1..n -> Nat \ {0}] /\ f[1] = 1 /\ \A m \in 1..(n - 1) : f[m + 1] = f[m] + lengths[m]
    BY <1>1, <1>3, <2>1
  <2>3. lengths[n] \in Nat \ {0} /\ f[n] \in Nat \ {0}
    BY <1>1, <1>3, <2>2
  <2>4. g \in [1..(n + 1) -> Nat \ {0}]
    BY <1>1, <1>3, <2>2, <2>3
  <2>5. g[1] = 1
    BY <1>1, <1>3, <2>2
  <2>6. ASSUME NEW m \in 1..n PROVE g[m + 1] = g[m] + lengths[m]
    <3>1. m + 1 \in 1..(n + 1) /\ m \in 1..(n + 1) /\ m # n + 1
      BY <1>1, <1>3
    <3>2. g[m] = f[m]
      BY <3>1
    <3>3. CASE m = n
      BY <3>1, <3>2, <3>3
    <3>4. CASE m # n
      <4>1. m \in 1..(n - 1) /\ m + 1 # n + 1
        BY <1>1, <1>3, <3>4
      <4>2. g[m + 1] = f[m + 1]
        BY <3>1, <4>1
      <4> QED BY <2>2, <3>2, <4>1, <4>2
    <3> QED BY <3>3, <3>4
  <2> HIDE DEF g
  <2> QED BY <1>3, <2>4, <2>5, <2>6
<1>4. N \in S
  <2> HIDE DEF S
  <2>1. 0..N \subseteq S
    BY <1>1, <1>2, <1>3, Parts!CountingUp
  <2> QED BY <1>1, <2>1
<1>5. PICK f : Fits(f, N)
  BY <1>4
<1>6. f = Unfolded(f)
  <2>1. \A m \in 2..(N + 1) : f[m] = f[m - 1] + lengths[m - 1]
    <3> SUFFICES ASSUME NEW m \in 2..(N + 1) PROVE f[m] = f[m - 1] + lengths[m - 1]
      OBVIOUS
    <3>1. m - 1 \in 1..N /\ (m - 1) + 1 = m
      BY <1>1
    <3> QED BY <1>5, <3>1
  <2>2. \A m \in 1..(N + 1) : m # 1 => m \in 2..(N + 1)
    BY <1>1
  <2> QED BY <1>5, <2>1, <2>2
<1>7. Starts(lengths) = Unfolded(Starts(lengths))
  <2> HIDE DEF Unfolded
  <2>1. Starts(lengths) = CHOOSE g : g = Unfolded(g)
    BY DEF Starts, Unfolded
  <2> QED BY <1>6, <2>1
<1> DEFINE h == Starts(lengths)
<1>8. h = Unfolded(h)
  BY <1>7
<1> HIDE DEF h
<1>9. h[1] = 1 /\ \A m \in 1..N : h[m + 1] = h[m] + lengths[m]
  <2>1. h[1] = 1
    BY <1>1, <1>8
  <2>2. ASSUME NEW m \in 1..N PROVE h[m + 1] = h[m] + lengths[m]
    <3>1. m + 1 \in 1..(N + 1) /\ m + 1 # 1 /\ (m + 1) - 1 = m
      BY <1>1
    <3> QED BY <1>8, <3>1
  <2> QED BY <2>1, <2>2
<1>10. 0..N \subseteq {n \in 0..N : h[n + 1] = f[n + 1]}
  <2>1. 0 \in {n \in 0..N : h[n + 1] = f[n + 1]}
    BY <1>1, <1>5, <1>9
  <2>2. ASSUME NEW n \in 0..N, n # 0, n - 1 \in {k \in 0..N : h[k + 1] = f[k + 1]}
        PROVE  h[n + 1] = f[n + 1]
    <3>1. n \in 1..N /\ (n - 1) + 1 = n
      BY <1>1, <2>2
    <3>2. h[n] = f[n]
      BY <2>2, <3>1
    <3> QED BY <1>5, <1>9, <3>1, <3>2
  <2> QED BY <1>1, <2>1, <2>2, Parts!CountingUp
<1>11. ASSUME NEW m \in 1..(N + 1) PROVE h[m] \in Nat \ {0}
  <2>1. m - 1 \in 0..N /\ (m - 1) + 1 = m
    BY <1>1
  <2>2. h[m] = f[m]
    BY <1>10, <2>1
  <2> QED BY <1>5, <2>2
<1>12. h \in [1..(N + 1) -> Nat \ {0}]
  BY <1>8, <1>11
<1> QED BY <1>9, <1>12 DEF h

\* Later months begin later.
LEMMA StartsGrow ==
    ASSUME NEW lengths \in Seq(Nat \ {0}),
           NEW m \in 1..(Len(lengths) + 1), NEW n \in 1..(Len(lengths) + 1), m < n
    PROVE  Starts(lengths)[m] < Starts(lengths)[n]
<1> DEFINE N == Len(lengths)
           h == Starts(lengths)
           S == {k \in 0..N : \A i \in 1..k : h[i] < h[k + 1]}
<1>1. /\ N \in Nat /\ h \in [1..(N + 1) -> Nat \ {0}]
      /\ \A i \in 1..N : h[i + 1] = h[i] + lengths[i] /\ lengths[i] \in Nat \ {0}
  BY StartsOfMonths
<1> HIDE DEF h
<1>2. 0 \in S
  BY <1>1
<1>3. ASSUME NEW k \in 0..N, k # 0, k - 1 \in S PROVE k \in S
  <2>1. k \in 1..N /\ (k - 1) + 1 = k
    BY <1>1, <1>3
  <2>2. h[k] < h[k + 1] /\ h[k] \in Nat /\ h[k + 1] \in Nat
    <3>1. k \in 1..N /\ k \in 1..(N + 1) /\ k + 1 \in 1..(N + 1)
      BY <1>1, <2>1
    <3>2. h[k + 1] = h[k] + lengths[k] /\ lengths[k] \in Nat \ {0}
      BY <1>1, <3>1
    <3>3. h[k] \in Nat /\ h[k + 1] \in Nat
      BY <1>1, <3>1
    <3> QED BY <3>2, <3>3
  <2>3. ASSUME NEW i \in 1..k PROVE h[i] < h[k + 1]
    <3>1. CASE i = k
      BY <2>2, <3>1
    <3>2. CASE i # k
      <4>1. i \in 1..(k - 1) /\ i \in 1..(N + 1)
        BY <1>1, <2>1, <3>2
      <4>2. h[i] < h[k] /\ h[i] \in Nat
        BY <1>1, <1>3, <2>1, <4>1
      <4> QED BY <2>2, <4>2
    <3> QED BY <3>1, <3>2
  <2> QED BY <1>3, <2>3
<1>4. 0..N \subseteq S
  <2> HIDE DEF S
  <2> QED BY <1>1, <1>2, <1>3, Parts!CountingUp
<1>5. n - 1 \in 0..N /\ m \in 1..(n - 1) /\ (n - 1) + 1 = n
  BY <1>1
<1> QED BY <1>4, <1>5 DEF h

\* Every day of the calendar is in a month.
LEMMA DaysHaveMonths ==
    ASSUME NEW lengths \in Seq(Nat \ {0}),
           NEW d \in 1..(Starts(lengths)[Len(lengths) + 1] - 1)
    PROVE  \E m \in 1..Len(lengths) : Starts(lengths)[m] <= d /\ d < Starts(lengths)[m + 1]
<1> DEFINE N == Len(lengths)
           h == Starts(lengths)
           S == {k \in 0..N : h[k + 1] <= d}
<1>1. N \in Nat /\ h \in [1..(N + 1) -> Nat \ {0}] /\ h[1] = 1 /\ h[N + 1] \in Nat
  <2>1. N \in Nat /\ h \in [1..(N + 1) -> Nat \ {0}] /\ h[1] = 1
    BY StartsOfMonths
  <2>2. N + 1 \in 1..(N + 1)
    BY <2>1
  <2> HIDE DEF h
  <2> QED BY <2>1, <2>2
<1> HIDE DEF h
<1>2. d \in Nat /\ 1 <= d /\ d < h[N + 1]
  BY <1>1 DEF h
<1>3. 0 \in S
  BY <1>1, <1>2
<1>4. N \notin S
  BY <1>1, <1>2
<1>5. PICK n \in 0..N : n # 0 /\ n - 1 \in S /\ n \notin S
  <2> HIDE DEF S
  <2>1. N \in 0..N
    BY <1>1
  <2> QED BY <1>1, <1>3, <1>4, <2>1, Parts!CountingUp
<1>6. n \in 1..N /\ (n - 1) + 1 = n /\ h[n] <= d
  BY <1>1, <1>5
<1>7. d < h[n + 1]
  <2>1. n + 1 \in 1..(N + 1)
    BY <1>1, <1>6
  <2>2. h[n + 1] \in Nat
    BY <1>1, <2>1
  <2> QED BY <1>2, <1>5, <2>2
<1> QED BY <1>6, <1>7 DEF h

-----------------------------------------------------------------------------
(* Trends.                                                                 *)

\* A walk from one day to another in steps, each of which ends on a day given for
\* the day on which it begins: the pairs of first and last days from each on.
Walks(f, last, first, end) ==
    f = [d \in first..(end + 1) |->
            IF d > end THEN {} ELSE {<<d, last[d]>>} \cup f[last[d] + 1]]

\* There is such a walk.
LEMMA WalkExists ==
    ASSUME NEW first \in Nat, NEW end \in Nat, first <= end,
           NEW last, \A d \in first..end : last[d] \in d..end
    PROVE  \E f : Walks(f, last, first, end)
<1> DEFINE N == end + 1 - first
           S == {n \in 0..N : \E f : Walks(f, last, end + 1 - n, end)}
<1>1. N \in Nat /\ end + 1 - N = first
  OBVIOUS
<1>2. 0 \in S
  <2> DEFINE g == [d \in (end + 1 - 0)..(end + 1) |-> {}]
  <2>1. Walks(g, last, end + 1 - 0, end)
    <3>1. \A d \in (end + 1 - 0)..(end + 1) : d > end
      OBVIOUS
    <3> QED BY <3>1 DEF Walks
  <2> HIDE DEF g
  <2> QED BY <1>1, <2>1
<1>3. ASSUME NEW n \in 0..N, n # 0, n - 1 \in S PROVE n \in S
  <2> DEFINE from == end + 1 - n
  <2>1. /\ from \in first..end /\ end + 1 - (n - 1) = from + 1
        /\ last[from] \in from..end /\ last[from] + 1 \in (from + 1)..(end + 1)
    <3>1. from \in first..end /\ end + 1 - (n - 1) = from + 1
      BY <1>1, <1>3
    <3> HIDE DEF from
    <3>2. last[from] \in from..end
      BY <3>1
    <3> QED BY <3>1, <3>2
  <2> HIDE DEF from
  <2>2. PICK f : Walks(f, last, from + 1, end)
    BY <1>3, <2>1
  <2> DEFINE g == [d \in from..(end + 1) |->
                      IF d = from THEN {<<from, last[from]>>} \cup f[last[from] + 1] ELSE f[d]]
  <2>3. ASSUME NEW d \in from..(end + 1)
        PROVE  g[d] = IF d > end THEN {} ELSE {<<d, last[d]>>} \cup g[last[d] + 1]
    <3>1. CASE d = from
      <4>1. ~(d > end) /\ last[d] + 1 \in from..(end + 1) /\ last[d] + 1 # from
        BY <2>1, <3>1
      <4>2. g[d] = {<<from, last[from]>>} \cup f[last[from] + 1] /\ g[last[d] + 1] = f[last[d] + 1]
        BY <3>1, <4>1
      <4> QED BY <3>1, <4>1, <4>2
    <3>2. CASE d # from
      <4>1. d \in (from + 1)..(end + 1)
        BY <2>1, <3>2
      <4>2. g[d] = f[d] /\ f[d] = IF d > end THEN {} ELSE {<<d, last[d]>>} \cup f[last[d] + 1]
        BY <2>2, <3>2, <4>1 DEF Walks
      <4>3. CASE d > end
        BY <4>2, <4>3
      <4>4. CASE ~(d > end)
        <5>1. d \in first..end
          BY <2>1, <4>1, <4>4
        <5>2. last[d] \in d..end
          BY <5>1
        <5>3. last[d] + 1 \in from..(end + 1) /\ last[d] + 1 # from
          BY <2>1, <4>1, <4>4, <5>2
        <5>4. g[last[d] + 1] = f[last[d] + 1]
          BY <5>3
        <5> HIDE DEF g
        <5> QED BY <4>2, <4>4, <5>4
      <4> QED BY <4>3, <4>4
    <3> QED BY <3>1, <3>2
  <2>4. Walks(g, last, from, end)
    <3>1. g = [d \in from..(end + 1) |-> g[d]]
      OBVIOUS
    <3> HIDE DEF g
    <3> QED BY <2>3, <3>1 DEF Walks
  <2> HIDE DEF g
  <2> QED BY <1>3, <2>4 DEF from
<1>4. N \in S
  <2> HIDE DEF S
  <2>1. 0..N \subseteq S
    BY <1>1, <1>2, <1>3, Parts!CountingUp
  <2> QED BY <1>1, <2>1
<1> QED BY <1>1, <1>4

\* Pairs of days, none of which lie outside first..end, every day of which lies
\* between the two of exactly one pair.
Partition(pairs, first, end) ==
    /\ \A p \in pairs : /\ p = <<p[1], p[2]>>
                        /\ p[1] \in first..end /\ p[2] \in p[1]..end
    /\ \A d \in first..end : \E p \in pairs : p[1] <= d /\ d <= p[2]
    /\ \A p, q \in pairs, d \in Int :
        p[1] <= d /\ d <= p[2] /\ q[1] <= d /\ d <= q[2] => p = q

\* A step, and a partition of what comes after it.
LEMMA StepAndRest ==
    ASSUME NEW end \in Nat, NEW d \in Nat, NEW e \in d..end,
           NEW rest, Partition(rest, e + 1, end)
    PROVE  Partition({<<d, e>>} \cup rest, d, end)
<1> DEFINE p == <<d, e>>
           all == {p} \cup rest
<1>1. p = <<p[1], p[2]>> /\ p[1] = d /\ p[2] = e
  OBVIOUS
<1> HIDE DEF p
<1>2. ASSUME NEW q \in all PROVE q = <<q[1], q[2]>> /\ q[1] \in d..end /\ q[2] \in q[1]..end
  <2>1. CASE q = p
    BY <1>1, <2>1
  <2>2. CASE q \in rest
    BY <2>2 DEF Partition
  <2> QED BY <2>1, <2>2
<1>3. ASSUME NEW x \in d..end PROVE \E q \in all : q[1] <= x /\ x <= q[2]
  <2>1. CASE x <= e
    BY <1>1, <2>1
  <2>2. CASE ~(x <= e)
    <3>1. x \in (e + 1)..end
      BY <2>2
    <3> QED BY <3>1 DEF Partition
  <2> QED BY <2>1, <2>2
<1>4. ASSUME NEW q \in rest PROVE q[1] \in Int /\ q[1] > e
  BY DEF Partition
<1>5. ASSUME NEW q \in all, NEW r \in all, NEW x \in Int,
             q[1] <= x, x <= q[2], r[1] <= x, x <= r[2]
      PROVE  q = r
  <2>1. CASE q \in rest /\ r \in rest
    BY <1>5, <2>1 DEF Partition
  <2>2. CASE q = p /\ r \in rest
    BY <1>1, <1>4, <1>5, <2>2
  <2>3. CASE r = p /\ q \in rest
    BY <1>1, <1>4, <1>5, <2>3
  <2> QED BY <2>1, <2>2, <2>3
<1> HIDE DEF all
<1>6. Partition(all, d, end)
  BY <1>2, <1>3, <1>5 DEF Partition
<1> QED BY <1>6 DEF all, p

\* The steps of a walk part its days among them.
LEMMA WalkParts ==
    ASSUME NEW first \in Nat, NEW end \in Nat, first <= end,
           NEW last, \A d \in first..end : last[d] \in d..end,
           NEW f, Walks(f, last, first, end)
    PROVE  Partition(f[first], first, end)
<1> DEFINE N == end + 1 - first
           S == {n \in 0..N : \A d \in (end + 1 - n)..(end + 1) : Partition(f[d], d, end)}
<1>1. N \in Nat /\ end + 1 - N = first
  OBVIOUS
<1>2. \A d \in first..(end + 1) :
        f[d] = IF d > end THEN {} ELSE {<<d, last[d]>>} \cup f[last[d] + 1]
  BY DEF Walks
<1>3. 0 \in S
  <2> SUFFICES ASSUME NEW d \in (end + 1 - 0)..(end + 1) PROVE Partition(f[d], d, end)
    BY <1>1
  <2>1. d \in first..(end + 1) /\ d > end /\ d..end = {}
    OBVIOUS
  <2>2. f[d] = {}
    BY <1>2, <2>1
  <2> QED BY <2>1, <2>2 DEF Partition
<1>4. ASSUME NEW n \in 0..N, n # 0, n - 1 \in S PROVE n \in S
  <2> SUFFICES ASSUME NEW d \in (end + 1 - n)..(end + 1) PROVE Partition(f[d], d, end)
    BY <1>4
  <2>1. CASE d \in (end + 1 - (n - 1))..(end + 1)
    BY <1>4, <2>1
  <2>2. CASE d \notin (end + 1 - (n - 1))..(end + 1)
    <3>1. d \in first..end /\ d \in first..(end + 1) /\ ~(d > end) /\ d \in Nat
          /\ d = end + 1 - n
      BY <1>1, <1>4, <2>2
    <3>2. last[d] \in d..end
      BY <3>1
    <3>3. last[d] + 1 \in (end + 1 - (n - 1))..(end + 1)
      BY <3>1, <3>2
    <3>4. Partition(f[last[d] + 1], last[d] + 1, end)
      BY <1>4, <3>3
    <3>5. f[d] = {<<d, last[d]>>} \cup f[last[d] + 1]
      BY <1>2, <3>1
    <3> QED BY <3>1, <3>2, <3>4, <3>5, StepAndRest
  <2> QED BY <2>1, <2>2
<1>5. N \in S
  <2> HIDE DEF S
  <2>1. 0..N \subseteq S
    BY <1>1, <1>3, <1>4, Parts!CountingUp
  <2> QED BY <1>1, <2>1
<1>6. first \in (end + 1 - N)..(end + 1)
  OBVIOUS
<1> QED BY <1>5, <1>6

TrendAssumptions == Trend!CalendarAssumption /\ Trend!NowAssumption /\ Trend!NoneAssumption

\* The day of an instant: in the calendar, and no earlier for a later one.
LEMMA DayOfInstant ==
    ASSUME NEW t \in Nat, NEW q \in Nat \ {0}
    PROVE  t \div q \in Nat /\ q * (t \div q) <= t /\ t < q * (t \div q + 1)
OBVIOUS

\* What begins earlier is earlier.
LEMMA EarlierDays ==
    ASSUME NEW a \in Nat, NEW b \in Nat, NEW q \in Nat \ {0}, q * a < q * b
    PROVE  a < b
<1> SUFFICES ASSUME b <= a PROVE q * b <= q * a
  OBVIOUS
<1> QED OBVIOUS

\* The dates of what is given are days of the calendar.
LEMMA TrendDates ==
    ASSUME TrendAssumptions
    PROVE  /\ \A t \in Trend!Instants : Trend!DateOf(t) \in Trend!Days
           /\ \A s, t \in Trend!Instants : s <= t => Trend!DateOf(s) <= Trend!DateOf(t)
           /\ \A a, b \in Trend!Days : a..b \subseteq Trend!Days
<1> DEFINE days == Trend!First[Len(TrendMonths) + 1] - 1
           q == Ticks
<1>1. days \in Nat /\ q \in Nat \ {0}
  <2>1. Trend!First = Starts(TrendMonths)
    BY DEF Trend!First, Starts
  <2>2. Len(TrendMonths) + 1 \in 1..(Len(TrendMonths) + 1)
    BY DEF TrendAssumptions, Trend!CalendarAssumption
  <2>3. Starts(TrendMonths)[Len(TrendMonths) + 1] \in Nat \ {0}
    BY <2>2, StartsOfMonths DEF TrendAssumptions, Trend!CalendarAssumption
  <2> QED BY <2>1, <2>3 DEF TrendAssumptions, Trend!CalendarAssumption
<1>2. Trend!Instants = 0..(q * days - 1) /\ Trend!Days = 1..days
  BY DEF Trend!Instants, Trend!Days
<1>3. \A t \in Trend!Instants : Trend!DateOf(t) = t \div q + 1
  BY DEF Trend!DateOf
<1> HIDE DEF days, q
<1>4. q * days \in Nat
  BY <1>1
<1>5. ASSUME NEW t \in Trend!Instants PROVE t \div q + 1 \in 1..days
  <2>1. t \in Nat /\ t < q * days
    BY <1>2, <1>4
  <2>2. t \div q \in Nat /\ q * (t \div q) <= t
    BY <1>1, <2>1, DayOfInstant
  <2>3. q * (t \div q) < q * days
    BY <1>1, <1>4, <2>1, <2>2
  <2>4. t \div q < days
    BY <1>1, <2>2, <2>3, EarlierDays
  <2> QED BY <1>1, <2>2, <2>4
<1>6. ASSUME NEW s \in Trend!Instants, NEW t \in Trend!Instants, s <= t
      PROVE  s \div q + 1 <= t \div q + 1
  <2>1. s \in Nat /\ t \in Nat
    BY <1>2, <1>4
  <2>2. /\ s \div q \in Nat /\ q * (s \div q) <= s
        /\ t \div q \in Nat /\ t < q * (t \div q + 1)
    BY <1>1, <2>1, DayOfInstant
  <2>3. q * (s \div q) < q * (t \div q + 1)
    BY <1>1, <1>6, <2>1, <2>2
  <2>4. s \div q < t \div q + 1
    BY <1>1, <2>2, <2>3, EarlierDays
  <2> QED BY <2>2, <2>4
<1>7. \A a, b \in 1..days : a..b \subseteq 1..days
  BY <1>1
<1> QED BY <1>2, <1>3, <1>5, <1>6, <1>7

\* A bucket ends on the day on which it begins or later, within the range.
LEMMA BucketEnds ==
    ASSUME TrendAssumptions, NEW end \in Trend!Days, NEW d \in 1..end
    PROVE  Trend!BucketEnd(d, end) \in d..end
<1> DEFINE N == Len(TrendMonths)
           h == Trend!First
           starts == {h[m + 1] : m \in 1..N}
           After(n) == n > d /\ \A m \in 1..N : h[m] <= d \/ h[m] >= n
           next == CHOOSE n \in starts : After(n)
<1>1. h = Starts(TrendMonths)
  BY DEF Trend!First, Starts
<1>2. /\ N \in Nat /\ h \in [1..(N + 1) -> Nat \ {0}] /\ TrendMonths \in Seq(Nat \ {0})
      /\ Week \in Nat \ {0}
  BY <1>1, StartsOfMonths DEF TrendAssumptions, Trend!CalendarAssumption
<1>3. Trend!Days = 1..(h[N + 1] - 1)
  BY DEF Trend!Days
<1>4. Trend!LastOfMonth(d) = next - 1
  BY DEF Trend!LastOfMonth
<1>5. \A m, n \in 1..(N + 1) : m < n => h[m] < h[n]
  BY <1>1, <1>2, StartsGrow
<1> HIDE DEF h
<1>6. d \in 1..(h[N + 1] - 1) /\ end \in Nat /\ d <= end /\ d \in Nat
  <2>1. h[N + 1] \in Nat
    <3>1. N + 1 \in 1..(N + 1)
      BY <1>2
    <3> QED BY <1>2, <3>1
  <2> QED BY <1>3, <2>1
<1>7. next \in starts /\ After(next)
  <2>1. PICK m \in 1..N : h[m] <= d /\ d < h[m + 1]
    BY <1>1, <1>2, <1>6, DaysHaveMonths
  <2>2. h[m + 1] \in starts
    BY <1>2, <2>1
  <2>3. ASSUME NEW k \in 1..N PROVE h[k] <= d \/ h[k] >= h[m + 1]
    <3>1. k \in 1..(N + 1) /\ m \in 1..(N + 1) /\ m + 1 \in 1..(N + 1)
      BY <1>2
    <3>2. h[k] \in Nat /\ h[m] \in Nat /\ h[m + 1] \in Nat
      BY <1>2, <3>1
    <3>3. CASE k < m
      <4>1. h[k] < h[m]
        BY <1>5, <3>1, <3>3
      <4> QED BY <1>6, <2>1, <3>2, <4>1
    <3>4. CASE k = m
      BY <2>1, <3>4
    <3>5. CASE k = m + 1
      BY <3>2, <3>5
    <3>6. CASE k > m + 1
      <4>1. h[m + 1] < h[k]
        BY <1>5, <3>1, <3>6
      <4> QED BY <3>2, <4>1
    <3> QED BY <3>1, <3>3, <3>4, <3>5, <3>6
  <2>4. After(h[m + 1])
    BY <1>6, <2>1, <2>3
  <2> HIDE DEF starts, After
  <2> QED BY <2>2, <2>4
<1>8. next \in Nat /\ next > d
  <2>1. PICK m \in 1..N : next = h[m + 1]
    BY <1>7
  <2>2. m + 1 \in 1..(N + 1)
    BY <1>2
  <2>3. h[m + 1] \in Nat
    BY <1>2, <2>2
  <2> HIDE DEF next
  <2> QED BY <1>7, <2>1, <2>3
<1> HIDE DEF next
<1>9. next - 1 \in Nat /\ next - 1 >= d
  BY <1>6, <1>8
<1> QED BY <1>2, <1>4, <1>6, <1>9 DEF Trend!BucketEnd, Trend!Smaller, Trend!Unit

\* The buckets part the days of the range among them.
LEMMA RangesParts ==
    ASSUME TrendAssumptions, NEW start \in Trend!Days, NEW end \in Trend!Days, start <= end
    PROVE  Partition(Trend!Ranges(start, end), start, end)
<1> DEFINE last == [d \in start..end |-> Trend!BucketEnd(d, end)]
           Stepped(f) == [d \in start..(end + 1) |->
                            IF d > end THEN {}
                            ELSE {<<d, Trend!BucketEnd(d, end)>>} \cup f[Trend!BucketEnd(d, end) + 1]]
           from == CHOOSE f : f = Stepped(f)
<1>1. start \in Nat /\ end \in Nat /\ 1 <= start
  <2>1. Trend!Days \subseteq Nat /\ \A d \in Trend!Days : 1 <= d
    BY DEF Trend!Days
  <2> QED BY <2>1
<1>2. \A d \in start..end : last[d] \in d..end
  <2>1. \A d \in start..end : d \in 1..end
    BY <1>1
  <2> QED BY <2>1, BucketEnds
<1>3. ASSUME NEW f PROVE Walks(f, last, start, end) <=> f = Stepped(f)
  <2>1. ASSUME NEW d \in start..(end + 1), ~(d > end) PROVE last[d] = Trend!BucketEnd(d, end)
    BY <1>1, <2>1
  <2> HIDE DEF last
  <2>2. [d \in start..(end + 1) |-> IF d > end THEN {} ELSE {<<d, last[d]>>} \cup f[last[d] + 1]]
        = Stepped(f)
    BY <2>1
  <2> QED BY <2>2 DEF Walks
<1>4. \E f : Walks(f, last, start, end)
  <2> HIDE DEF last
  <2> QED BY <1>1, <1>2, WalkExists
<1>5. from = Stepped(from)
  <2>1. \E f : f = Stepped(f)
    BY <1>3, <1>4
  <2> HIDE DEF Stepped
  <2> QED BY <2>1
<1>6. Walks(from, last, start, end)
  <2> HIDE DEF from, Stepped, last
  <2> QED BY <1>3, <1>5
<1>7. Partition(from[start], start, end)
  <2> HIDE DEF from, last
  <2> QED BY <1>1, <1>2, <1>6, WalkParts
<1>8. Trend!Ranges(start, end) = from[start]
  BY <1>1 DEF Trend!Ranges
<1> QED BY <1>7, <1>8

\* What is given, and what is computed from it.
TrendGiven ==
    /\ range \in [from : Trend!Instants \cup {None}, to : Trend!Instants \cup {None}]
    /\ occurred \in [Rows -> Trend!Instants \cup {None}]
    /\ created \in [Rows -> Trend!Instants]

TrendRows == Trend!Within(range.from, range.to)
TrendFirst == Trend!StartDate(TrendRows)
TrendLast == Trend!DateOf(Trend!End)
TrendBuckets ==
    {[start |-> b[1], end |-> b[2],
      rows |-> {r \in TrendRows : b[1] <= Trend!SpendDate(r) /\ Trend!SpendDate(r) <= b[2]}] :
        b \in Trend!Ranges(TrendFirst, TrendLast)}
TrendAnswer ==
    [current |-> TrendRows,
     previous |-> IF range.from = None THEN {} ELSE Trend!PreviousRows,
     buckets |-> TrendBuckets]

\* Every answer is the answer to what was given.
TrendIInv == TrendGiven /\ (trend = None \/ trend = TrendAnswer)

\* Of some days one is the first.
LEMMA SmallestIsThere ==
    ASSUME NEW S, S \subseteq Nat, S # {}
    PROVE  Trend!Smallest(S) \in S /\ \A m \in S : Trend!Smallest(S) <= m
<1>1. PICK n \in S : \A m \in S : ~(m < n)
  <2>1. IsWellFoundedOn(OpToRel(<, Nat), Nat)
    BY NatLessThanWellFounded
  <2>2. PICK n \in S : \A m \in S : <<m, n>> \notin OpToRel(<, Nat)
    BY <2>1, WFMin
  <2>3. \A m \in S : m < n => <<m, n>> \in OpToRel(<, Nat)
    BY DEF OpToRel
  <2> QED BY <2>2, <2>3
<1>2. \A m \in S : n <= m
  BY <1>1
<1> QED BY <1>2 DEF Trend!Smallest

\* Days and ends of a given request are in the calendar.
LEMMA TrendDays ==
    ASSUME TrendAssumptions, TrendGiven
    PROVE  /\ Trend!Days \subseteq Nat /\ Trend!Instants \subseteq Nat
           /\ Trend!End \in Trend!Instants /\ TrendLast \in Trend!Days
           /\ \A r \in Rows : Trend!SpendDate(r) \in Trend!Days
           /\ TrendFirst \in Trend!Days
           /\ TrendRows \subseteq Rows
<1>1. Trend!Days \subseteq Nat /\ Trend!Instants \subseteq Nat
  BY DEF Trend!Days, Trend!Instants
<1>2. Trend!End \in Trend!Instants
  BY DEF Trend!End, TrendGiven, TrendAssumptions, Trend!NowAssumption
<1>3. ASSUME NEW r \in Rows PROVE Trend!SpendDate(r) \in Trend!Days
  <2>1. (IF occurred[r] # None THEN occurred[r] ELSE created[r]) \in Trend!Instants
    BY DEF TrendGiven
  <2> QED BY <2>1, TrendDates DEF Trend!SpendDate
<1>4. TrendRows \subseteq Rows
  BY DEF TrendRows, Trend!Within
<1>5. Trend!StartDate(TrendRows) \in Trend!Days
  <2> DEFINE dates == {Trend!SpendDate(r) : r \in TrendRows}
  <2>1. CASE range.from # None
    <3>1. range.from \in Trend!Instants
      BY <2>1 DEF TrendGiven
    <3> QED BY <2>1, <3>1, TrendDates DEF Trend!StartDate
  <2>2. CASE range.from = None /\ TrendRows = {}
    BY <1>2, <2>2, TrendDates DEF Trend!StartDate
  <2>3. CASE range.from = None /\ TrendRows # {}
    <3>1. dates \subseteq Trend!Days /\ dates # {}
      BY <1>3, <1>4, <2>3
    <3>2. Trend!StartDate(TrendRows) = Trend!Smallest(dates)
      BY <2>3 DEF Trend!StartDate
    <3> HIDE DEF dates
    <3> QED BY <1>1, <3>1, <3>2, SmallestIsThere
  <2> QED BY <2>1, <2>2, <2>3
<1> QED BY <1>1, <1>2, <1>3, <1>4, <1>5, TrendDates DEF TrendFirst, TrendLast

\* A row of the range is dated from the first bucket's day on, and not after the
\* last one's, unless it is dated after today and the request names no end.
LEMMA RowsInRange ==
    ASSUME TrendAssumptions, TrendGiven, NEW r \in TrendRows
    PROVE  /\ TrendFirst <= Trend!SpendDate(r)
           /\ \/ Trend!SpendDate(r) <= TrendLast
              \/ range.to = None /\ Trend!SpendDate(r) > Trend!DateOf(Now)
<1>1. /\ r \in Rows
      /\ range.from # None => occurred[r] # None /\ occurred[r] >= range.from
      /\ range.to # None => occurred[r] # None /\ occurred[r] <= range.to
  BY DEF TrendRows, Trend!Within
<1>2. occurred[r] # None => Trend!SpendDate(r) = Trend!DateOf(occurred[r])
                            /\ occurred[r] \in Trend!Instants
  BY <1>1 DEF Trend!SpendDate, TrendGiven
<1>3. TrendFirst <= Trend!SpendDate(r)
  <2>1. CASE range.from # None
    <3>1. range.from \in Trend!Instants /\ range.from <= occurred[r]
      BY <1>1, <2>1, TrendDays, <1>2 DEF TrendGiven
    <3> QED BY <1>1, <1>2, <2>1, <3>1, TrendDates DEF TrendFirst, Trend!StartDate
  <2>2. CASE range.from = None
    <3> DEFINE dates == {Trend!SpendDate(x) : x \in TrendRows}
    <3>1. dates \subseteq Nat /\ Trend!SpendDate(r) \in dates
      BY TrendDays
    <3>2. TrendFirst = Trend!Smallest(dates)
      BY <2>2 DEF TrendFirst, Trend!StartDate
    <3> HIDE DEF dates
    <3> QED BY <3>1, <3>2, SmallestIsThere
  <2> QED BY <2>1, <2>2
<1>4. CASE range.to # None
  <2>1. Trend!End = range.to /\ range.to \in Trend!Instants /\ occurred[r] <= range.to
    BY <1>1, <1>4 DEF Trend!End, TrendGiven
  <2> QED BY <1>1, <1>2, <1>3, <1>4, <2>1, TrendDates DEF TrendLast
<1>5. CASE range.to = None
  <2>1. Trend!End = Now
    BY <1>5 DEF Trend!End
  <2>2. Trend!SpendDate(r) \in Nat /\ Trend!DateOf(Now) \in Nat
    BY <1>1, <2>1, TrendDays DEF TrendLast
  <2> QED BY <1>3, <1>5, <2>1, <2>2 DEF TrendLast
<1> QED BY <1>4, <1>5

\* The buckets of an answer, which are none if the range ends before its first day.
LEMMA BucketsPart ==
    ASSUME TrendAssumptions, TrendGiven
    PROVE  Partition(Trend!Ranges(TrendFirst, TrendLast), TrendFirst, TrendLast)
<1>1. /\ TrendFirst \in Trend!Days /\ TrendLast \in Trend!Days
      /\ TrendFirst \in Nat /\ TrendLast \in Nat
  BY TrendDays
<1>2. CASE TrendFirst <= TrendLast
  BY <1>1, <1>2, RangesParts
<1>3. CASE ~(TrendFirst <= TrendLast)
  <2>1. Trend!Ranges(TrendFirst, TrendLast) = {} /\ TrendFirst..TrendLast = {}
    BY <1>1, <1>3 DEF Trend!Ranges
  <2> QED BY <2>1 DEF Partition
<1> QED BY <1>2, <1>3

\* What follows of an answer.
LEMMA TrendInvariantSuffices ==
    ASSUME TrendAssumptions, TrendIInv PROVE Trend!TypeOK /\ Trend!TrendCountsOnce
<1> DEFINE start == TrendFirst
           end == TrendLast
           pairs == Trend!Ranges(start, end)
           Of(b) == {r \in TrendRows : b[1] <= Trend!SpendDate(r) /\ Trend!SpendDate(r) <= b[2]}
           Shown(b) == [start |-> b[1], end |-> b[2], rows |-> Of(b)]
           previous == IF range.from = None THEN {} ELSE Trend!PreviousRows
<1>0. TrendGiven
  BY DEF TrendIInv
<1>1. /\ start \in Trend!Days /\ end \in Trend!Days /\ Trend!Days \subseteq Nat
      /\ start..end \subseteq Trend!Days
  <2>1. start \in Trend!Days /\ end \in Trend!Days /\ Trend!Days \subseteq Nat
    BY <1>0, TrendDays
  <2>2. \A a, b \in Trend!Days : a..b \subseteq Trend!Days
    BY TrendDates
  <2> QED BY <2>1, <2>2
<1>2. Partition(pairs, start, end)
  BY <1>0, BucketsPart
<1>3. TrendBuckets = {Shown(b) : b \in pairs}
  BY DEF TrendBuckets
<1>4. \A r \in TrendRows : Trend!SpendDate(r) \in Int /\ r \in Rows
  BY <1>0, TrendDays
<1>5. \A r \in TrendRows : /\ start <= Trend!SpendDate(r)
                           /\ \/ Trend!SpendDate(r) <= end
                              \/ range.to = None /\ Trend!SpendDate(r) > Trend!DateOf(Now)
  BY <1>0, RowsInRange
<1> HIDE DEF start, end, pairs
<1>6. TrendBuckets \subseteq Trend!Bucket
  <2> SUFFICES ASSUME NEW b \in pairs PROVE Shown(b) \in Trend!Bucket
    BY <1>3
  <2>1. b[1] \in start..end /\ b[2] \in b[1]..end
    BY <1>2 DEF Partition
  <2>2. b[1] \in Trend!Days /\ b[2] \in Trend!Days
    BY <1>1, <2>1
  <2>3. Of(b) \subseteq Rows
    BY <1>4
  <2> HIDE DEF Of
  <2> QED BY <2>2, <2>3 DEF Trend!Bucket
<1>7. ASSUME NEW r \in TrendRows, NEW b \in TrendBuckets, NEW c \in TrendBuckets,
             r \in b.rows, r \in c.rows
      PROVE  b = c
  <2>1. PICK p \in pairs : b = Shown(p)
    BY <1>3
  <2>2. PICK q \in pairs : c = Shown(q)
    BY <1>3
  <2>3. r \in Of(p) /\ r \in Of(q)
    BY <1>7, <2>1, <2>2
  <2>4. p = q
    BY <1>2, <1>4, <2>3 DEF Partition
  <2> QED BY <2>1, <2>2, <2>4
<1>8. ASSUME NEW r \in TrendRows
      PROVE  \/ \E b \in TrendBuckets : r \in b.rows
             \/ range.to = None /\ Trend!SpendDate(r) > Trend!DateOf(Now)
  <2>1. CASE Trend!SpendDate(r) <= end
    <3>1. Trend!SpendDate(r) \in start..end
      BY <1>1, <1>4, <1>5, <2>1
    <3>2. PICK p \in pairs : p[1] <= Trend!SpendDate(r) /\ Trend!SpendDate(r) <= p[2]
      BY <1>2, <3>1 DEF Partition
    <3>3. r \in Of(p) /\ Shown(p) \in TrendBuckets
      BY <1>3, <3>2
    <3>4. Shown(p).rows = Of(p)
      OBVIOUS
    <3> HIDE DEF Shown, Of
    <3> QED BY <3>3, <3>4
  <2> QED BY <1>5, <2>1
<1>9. ASSUME range.from # None
      PROVE  /\ TrendRows \cap previous = {} /\ previous \subseteq Rows
             /\ range.from < Trend!End =>
                  \A r \in Rows : r \in previous <=>
                    occurred[r] # None /\ occurred[r] < range.from
                    /\ range.from - occurred[r] <= Trend!End - range.from + 1
  <2>1. /\ range.from \in Int /\ Trend!End \in Int /\ Ticks \in Int /\ None \notin Int
        /\ \A r \in Rows : occurred[r] # None => occurred[r] \in Int
    BY <1>0, <1>9, TrendDays DEF TrendGiven, TrendAssumptions, Trend!CalendarAssumption,
       Trend!NoneAssumption
  <2>2. Trend!PreviousEnd = range.from - 1
    BY DEF Trend!PreviousEnd
  <2>3. Trend!Window \in Int /\ (range.from < Trend!End => Trend!Window = Trend!End - range.from)
    BY <2>1 DEF Trend!Window
  <2>4. Trend!PreviousEnd \in Int /\ Trend!PreviousEnd - Trend!Window \in Int
    BY <2>1, <2>2, <2>3
  <2>5. \A r \in Rows : r \in Trend!PreviousRows <=>
          /\ occurred[r] # None
          /\ occurred[r] >= Trend!PreviousEnd - Trend!Window
          /\ occurred[r] <= Trend!PreviousEnd
    BY <2>1, <2>4 DEF Trend!PreviousRows, Trend!Within
  <2>6. TrendRows \cap previous = {}
    <3>1. \A r \in TrendRows : r \in Rows /\ occurred[r] # None /\ occurred[r] >= range.from
      BY <1>9 DEF TrendRows, Trend!Within
    <3> QED BY <1>9, <2>1, <2>2, <2>5, <3>1
  <2>7. range.from < Trend!End =>
          \A r \in Rows : r \in previous <=>
              occurred[r] # None /\ occurred[r] < range.from
              /\ range.from - occurred[r] <= Trend!End - range.from + 1
    BY <1>9, <2>1, <2>2, <2>3, <2>5
  <2>8. previous \subseteq Rows
    BY <1>9 DEF Trend!PreviousRows, Trend!Within
  <2> QED BY <2>6, <2>7, <2>8
<1>10. /\ TrendRows \cap previous = {} /\ previous \subseteq Rows
       /\ range.from # None /\ range.from < Trend!End =>
            \A r \in Rows : r \in previous <=>
              occurred[r] # None /\ occurred[r] < range.from
              /\ range.from - occurred[r] <= Trend!End - range.from + 1
  BY <1>9
<1> HIDE DEF Shown, Of, start, end, pairs
<1>11. ASSUME trend = TrendAnswer
       PROVE  trend.current = TrendRows /\ trend.previous = previous /\ trend.buckets = TrendBuckets
  BY <1>11 DEF TrendAnswer
<1> HIDE DEF previous
<1>12. Trend!TypeOK
  BY <1>4, <1>6, <1>10, <1>11 DEF TrendIInv, TrendGiven, Trend!TypeOK
<1>13. Trend!TrendCountsOnce
  BY <1>7, <1>8, <1>10, <1>11 DEF TrendIInv, Trend!TrendCountsOnce
<1> QED BY <1>12, <1>13

\* No answer at first.
LEMMA TrendInitHolds == ASSUME Trend!Init PROVE TrendIInv
  BY DEF Trend!Init, TrendIInv, TrendGiven, Trend!Instants

\* The answer is of what does not change.
LEMMA TrendAnswerStays ==
    ASSUME UNCHANGED <<range, occurred, created>>
    PROVE  TrendAnswer' = TrendAnswer
BY DEF TrendAnswer, TrendRows, TrendBuckets, Trend!Within, Trend!PreviousRows, Trend!Window,
       Trend!PreviousEnd, Trend!End, Trend!SpendDate, Trend!Span, Trend!Unit, Trend!BucketEnd,
       Trend!Ranges, Trend!StartDate, TrendFirst, TrendLast

\* The only step answers.
LEMMA TrendNextKept ==
    ASSUME TrendIInv, [Trend!Next]_(Trend!vars) PROVE TrendIInv'
<1>1. UNCHANGED <<range, occurred, created>>
  BY DEF Trend!Next, Trend!Summarise, Trend!vars
<1>2. TrendGiven'
  BY <1>1 DEF TrendIInv, TrendGiven
<1>3. TrendAnswer' = TrendAnswer
  BY <1>1, TrendAnswerStays
<1>4. trend' = trend \/ trend' = TrendAnswer
  BY DEF Trend!Next, Trend!Summarise, Trend!vars, TrendAnswer, TrendRows, TrendBuckets,
       TrendFirst, TrendLast
<1> QED BY <1>2, <1>3, <1>4 DEF TrendIInv

\* For any calendar, rows, range and lengths of buckets: spending counts once.
THEOREM TrendTheorem ==
    ASSUME TrendAssumptions PROVE Trend!Spec => [](Trend!TypeOK /\ Trend!TrendCountsOnce)
<1>1. Trend!Init => TrendIInv
  BY TrendInitHolds
<1>2. TrendIInv /\ [Trend!Next]_(Trend!vars) => TrendIInv'
  BY TrendNextKept
<1>3. TrendIInv => Trend!TypeOK /\ Trend!TrendCountsOnce
  BY TrendInvariantSuffices
<1> QED BY <1>1, <1>2, <1>3, PTL DEF Trend!Spec

-----------------------------------------------------------------------------
(* Bills.                                                                  *)

BillAssumptions == Bill!CalendarAssumption /\ Bill!HorizonAssumption

\* Clocks do not change, or all of it is in the past.
NoClockChange == Autumn <= Spring

\* What is left of a number of months when whole years are taken away.
LEMMA YearsAndMonths ==
    ASSUME NEW a \in Nat, NEW q \in Nat \ {0}
    PROVE  a \div q \in Nat /\ a % q \in 0..(q - 1) /\ (a \div q) * q + (a % q) = a
OBVIOUS

\* The number of whole years in so many years and less than one.
LEMMA OneQuotient ==
    ASSUME NEW y \in Nat, NEW q \in Nat \ {0}, NEW r \in 0..(q - 1)
    PROVE  (y * q + r) \div q = y
<1> DEFINE a == y * q + r
<1>1. a \in Nat
  OBVIOUS
<1>2. a \div q \in Nat /\ q * (a \div q) <= a /\ a < q * (a \div q + 1)
  <2> HIDE DEF a
  <2> QED BY <1>1, DayOfInstant
<1>3. q * y <= a /\ a < q * (y + 1)
  OBVIOUS
<1> HIDE DEF a
<1>4. q * y < q * (a \div q + 1) /\ q * (a \div q) < q * (y + 1)
  BY <1>1, <1>2, <1>3
<1>5. y < a \div q + 1 /\ a \div q < y + 1
  BY <1>2, <1>4, EarlierDays
<1>6. a \div q = y
  BY <1>2, <1>5
<1> QED BY <1>6 DEF a

\* More years have more months.
LEMMA MoreYears ==
    ASSUME NEW a \in Nat, NEW b \in Nat, NEW q \in Nat \ {0}, a <= b
    PROVE  a * q <= b * q
OBVIOUS

\* The months of the calendar follow one another.
LEMMA BillCalendar ==
    ASSUME BillAssumptions
    PROVE  /\ Len(BillMonths) \in Nat
           /\ Bill!First \in [1..(Len(BillMonths) + 1) -> Nat \ {0}] /\ Bill!First[1] = 1
           /\ \A m \in Bill!Months :
                /\ BillMonths[m] \in Nat \ {0}
                /\ Bill!First[m + 1] = Bill!First[m] + BillMonths[m]
                /\ Bill!First[m] \in Nat \ {0} /\ Bill!First[m + 1] \in Nat \ {0}
           /\ \A m, n \in 1..(Len(BillMonths) + 1) : m < n => Bill!First[m] < Bill!First[n]
           /\ Bill!Months = 1..Len(BillMonths)
           /\ Bill!Days = 1..(Bill!First[Len(BillMonths) + 1] - 1)
           /\ Bill!Days \subseteq Nat \ {0}
<1>1. Bill!First = Starts(BillMonths) /\ BillMonths \in Seq(Nat \ {0})
  BY DEF Bill!First, Starts, BillAssumptions, Bill!CalendarAssumption
<1>2. Bill!Months = 1..Len(BillMonths) /\ Bill!Days = 1..(Bill!First[Len(BillMonths) + 1] - 1)
  BY DEF Bill!Months, Bill!Days
<1>3. Len(BillMonths) \in Nat /\ \A m \in 1..Len(BillMonths) : BillMonths[m] \in Nat \ {0}
  BY <1>1
<1>4. /\ Bill!First \in [1..(Len(BillMonths) + 1) -> Nat \ {0}] /\ Bill!First[1] = 1
      /\ \A m \in 1..Len(BillMonths) : Bill!First[m + 1] = Bill!First[m] + BillMonths[m]
  BY <1>1, StartsOfMonths
<1>5. \A m \in 1..Len(BillMonths) : /\ Bill!First[m] \in Nat \ {0}
                                    /\ Bill!First[m + 1] \in Nat \ {0}
  <2>1. \A m \in 1..Len(BillMonths) :
          m \in 1..(Len(BillMonths) + 1) /\ m + 1 \in 1..(Len(BillMonths) + 1)
    BY <1>3
  <2> QED BY <1>4, <2>1
<1>6. \A m, n \in 1..(Len(BillMonths) + 1) : m < n => Bill!First[m] < Bill!First[n]
  BY <1>1, StartsGrow
<1>7. Bill!Days \subseteq Nat \ {0}
  BY <1>2
<1> QED BY <1>2, <1>3, <1>4, <1>5, <1>6, <1>7

\* A day is of one month.
LEMMA MonthOfDay ==
    ASSUME BillAssumptions, NEW m \in Bill!Months, NEW d \in Int,
           Bill!First[m] <= d, d < Bill!First[m + 1]
    PROVE  Bill!MonthOf(d) = m /\ d \in Bill!Days
<1> DEFINE N == Len(BillMonths)
           h == Bill!First
<1>1. /\ N \in Nat /\ Bill!Months = 1..N /\ Bill!Days = 1..(h[N + 1] - 1)
      /\ \A k \in 1..N : h[k] \in Nat \ {0} /\ h[k + 1] \in Nat \ {0}
      /\ \A k, n \in 1..(N + 1) : k < n => h[k] < h[n]
  BY BillCalendar
<1>2. \A k \in Bill!Months : k \in 1..(N + 1) /\ k + 1 \in 1..(N + 1)
  BY <1>1
<1>3. N + 1 \in 1..(N + 1) /\ N \in 1..N /\ h[N + 1] \in Nat
  BY <1>1
<1>4. ASSUME NEW k \in Bill!Months, h[k] <= d, d < h[k + 1] PROVE k = m
  <2>1. CASE k < m
    <3>1. k + 1 = m \/ k + 1 < m
      BY <1>1, <2>1
    <3>2. h[k + 1] <= h[m]
      <4>1. h[k + 1] \in Nat /\ h[m] \in Nat
        BY <1>1
      <4>2. CASE k + 1 = m
        BY <4>1, <4>2
      <4>3. CASE k + 1 < m
        <5>1. k + 1 \in 1..(N + 1) /\ m \in 1..(N + 1)
          BY <1>2
        <5>2. h[k + 1] < h[m]
          BY <1>1, <4>3, <5>1
        <5> QED BY <4>1, <5>2
      <4> QED BY <3>1, <4>2, <4>3
    <3> QED BY <1>1, <1>4, <3>2
  <2>2. CASE m < k
    <3>1. m + 1 = k \/ m + 1 < k
      BY <1>1, <2>2
    <3>2. h[m + 1] <= h[k]
      <4>1. h[m + 1] \in Nat /\ h[k] \in Nat
        BY <1>1
      <4>2. CASE m + 1 = k
        BY <4>1, <4>2
      <4>3. CASE m + 1 < k
        <5>1. m + 1 \in 1..(N + 1) /\ k \in 1..(N + 1)
          BY <1>2
        <5>2. h[m + 1] < h[k]
          BY <1>1, <4>3, <5>1
        <5> QED BY <4>1, <5>2
      <4> QED BY <3>1, <4>2, <4>3
    <3> QED BY <1>1, <1>4, <3>2
  <2> QED BY <1>1, <2>1, <2>2
<1>5. Bill!MonthOf(d) = m
  BY <1>4 DEF Bill!MonthOf
<1>6. h[m + 1] <= h[N + 1]
  <2>1. m + 1 = N + 1 \/ m + 1 < N + 1
    BY <1>1
  <2>2. h[m + 1] \in Nat
    BY <1>1
  <2>3. m + 1 \in 1..(N + 1)
    BY <1>2
  <2>4. m + 1 < N + 1 => h[m + 1] < h[N + 1]
    BY <1>1, <1>3, <2>3
  <2> HIDE DEF h, N
  <2>5. CASE m + 1 = N + 1
    BY <1>3, <2>2, <2>5
  <2>6. CASE m + 1 < N + 1
    BY <1>3, <2>2, <2>4, <2>6
  <2> QED BY <2>1, <2>5, <2>6
<1>7. d \in 1..(h[N + 1] - 1)
  BY <1>1, <1>3, <1>6
<1> QED BY <1>1, <1>5, <1>7

\* A day of the calendar is of a month.
LEMMA DayHasMonth ==
    ASSUME BillAssumptions, NEW d \in Bill!Days
    PROVE  /\ Bill!MonthOf(d) \in Bill!Months
           /\ Bill!First[Bill!MonthOf(d)] <= d /\ d < Bill!First[Bill!MonthOf(d) + 1]
<1>1. Bill!First = Starts(BillMonths) /\ BillMonths \in Seq(Nat \ {0})
  BY DEF Bill!First, Starts, BillAssumptions, Bill!CalendarAssumption
<1>2. d \in 1..(Bill!First[Len(BillMonths) + 1] - 1) /\ Bill!Months = 1..Len(BillMonths)
  BY BillCalendar
<1>3. \E m \in Bill!Months : Bill!First[m] <= d /\ d < Bill!First[m + 1]
  BY <1>1, <1>2, DaysHaveMonths
<1> QED BY <1>3 DEF Bill!MonthOf

\* Later days begin later, and an instant is of one day.
LEMMA StartsLater ==
    ASSUME BillAssumptions, NEW a \in Nat, NEW b \in Nat
    PROVE  /\ Bill!Start(a) \in Int
           /\ Bill!Start(a) < Bill!Start(b) <=> a < b
BY DEF Bill!Start, BillAssumptions, Bill!CalendarAssumption

\* The date of an instant is the day in which it is.
LEMMA DateOfInstant ==
    ASSUME BillAssumptions, NEW d \in Nat, NEW t \in Nat,
           Bill!Start(d) <= t, t < Bill!Start(d + 1)
    PROVE  Bill!DateOf(t) = d
<1> DEFINE Within(e) == Bill!Start(e) <= t /\ t < Bill!Start(e + 1)
<1>1. d \in 0..(t \div 24 + 1)
  <2>1. 24 * d - 1 <= t
    BY DEF Bill!Start, BillAssumptions, Bill!CalendarAssumption
  <2> QED BY <2>1
<1>2. ASSUME NEW e \in 0..(t \div 24 + 1), Within(e) PROVE e = d
  <2>1. e \in Nat
    OBVIOUS
  <2>2. Bill!Start(e) < Bill!Start(d + 1) /\ Bill!Start(d) < Bill!Start(e + 1)
    BY <1>2, <2>1, StartsLater
  <2>3. e < d + 1 /\ d < e + 1
    BY <2>1, <2>2, StartsLater
  <2> QED BY <2>1, <2>3
<1>3. Bill!DateOf(t) = CHOOSE e \in 0..(t \div 24 + 1) : Within(e)
  BY DEF Bill!DateOf
<1> HIDE DEF Within
<1>4. Within(d)
  BY DEF Within
<1> QED BY <1>1, <1>2, <1>3, <1>4

\* A day begins on its date.
LEMMA DateOfStart ==
    ASSUME BillAssumptions, NEW d \in Nat \ {0} PROVE Bill!DateOf(Bill!Start(d)) = d
<1>1. Bill!Start(d) \in Nat
  BY DEF Bill!Start, BillAssumptions, Bill!CalendarAssumption
<1>2. Bill!Start(d) <= Bill!Start(d) /\ Bill!Start(d) < Bill!Start(d + 1)
  BY <1>1, StartsLater
<1> QED BY <1>1, <1>2, DateOfInstant

\* The date of a month is in that month.
LEMMA MonthlyFits ==
    ASSUME BillAssumptions, NEW a \in Bill!Days, NEW m \in Bill!Months
    PROVE  /\ Bill!MonthlyDueDate(a, m) \in Bill!Days
           /\ Bill!MonthOf(Bill!MonthlyDueDate(a, m)) = m
           /\ Bill!First[m] <= Bill!MonthlyDueDate(a, m)
           /\ Bill!MonthlyDueDate(a, m) < Bill!First[m + 1]
           /\ Bill!ShownMonthly(a, m) = Bill!Start(Bill!MonthlyDueDate(a, m))
<1> DEFINE d == Bill!MonthlyDueDate(a, m)
           short == Bill!Smaller(Bill!DayOf(a), BillMonths[m])
<1>1. /\ BillMonths[m] \in Nat \ {0} /\ Bill!First[m] \in Nat
      /\ Bill!First[m + 1] = Bill!First[m] + BillMonths[m]
  BY BillCalendar
<1>2. Bill!DayOf(a) \in Nat \ {0}
  <2>1. Bill!MonthOf(a) \in Bill!Months /\ Bill!First[Bill!MonthOf(a)] <= a
    BY DayHasMonth
  <2>2. Bill!First[Bill!MonthOf(a)] \in Nat /\ a \in Nat
    BY <2>1, BillCalendar
  <2> QED BY <2>1, <2>2 DEF Bill!DayOf
<1>3. short \in 1..BillMonths[m]
  BY <1>1, <1>2 DEF Bill!Smaller
<1>4. d = Bill!First[m] + short - 1 /\ Bill!ShownMonthly(a, m) = Bill!Start(Bill!First[m] + short - 1)
  BY DEF Bill!MonthlyDueDate, Bill!ShownMonthly
<1> HIDE DEF d, short
<1>5. d \in Int /\ Bill!First[m] <= d /\ d < Bill!First[m + 1]
  BY <1>1, <1>3, <1>4
<1>6. d \in Bill!Days /\ Bill!MonthOf(d) = m
  BY <1>5, MonthOfDay
<1> QED BY <1>4, <1>5, <1>6 DEF d

\* A date of a year is of that year.
LEMMA YearlyFits ==
    ASSUME BillAssumptions, NEW a \in Bill!Days, NEW y \in Nat, Bill!InYear(a, y) \in Bill!Months
    PROVE  Bill!YearOf(Bill!YearlyDueDate(a, y)) = y
<1> DEFINE m == Bill!InYear(a, y)
           rest == (Bill!MonthOf(a) - 1) % MonthsInYear
<1>1. Bill!MonthOf(a) - 1 \in Nat /\ MonthsInYear \in Nat \ {0}
  <2>1. Bill!MonthOf(a) \in 1..Len(BillMonths) /\ Len(BillMonths) \in Nat
    BY DayHasMonth, BillCalendar
  <2> QED BY <2>1 DEF BillAssumptions, Bill!CalendarAssumption
<1>2. rest \in 0..(MonthsInYear - 1)
  BY <1>1, YearsAndMonths
<1>3. m = y * MonthsInYear + rest + 1
  BY DEF Bill!InYear
<1> HIDE DEF rest
<1>4. m - 1 = y * MonthsInYear + rest
  BY <1>1, <1>2, <1>3
<1>5. (m - 1) \div MonthsInYear = y
  BY <1>1, <1>2, <1>4, OneQuotient
<1>6. Bill!MonthOf(Bill!YearlyDueDate(a, y)) = m
  BY MonthlyFits DEF Bill!YearlyDueDate
<1> HIDE DEF m
<1> QED BY <1>5, <1>6 DEF Bill!YearOf

\* The first date of a bill is on its schedule.
LEMMA AnchorScheduled ==
    ASSUME BillAssumptions, NEW a \in Bill!Days, NEW recurrence \in Bill!Recurrences
    PROVE  Bill!ExpectedDueDate(a, recurrence, a) = a
<1> DEFINE m == Bill!MonthOf(a)
<1>1. /\ m \in Bill!Months /\ Bill!First[m] <= a /\ a < Bill!First[m + 1] /\ a \in Nat
      /\ BillMonths[m] \in Nat \ {0} /\ Bill!First[m] \in Nat
      /\ Bill!First[m + 1] = Bill!First[m] + BillMonths[m]
  <2>1. m \in Bill!Months /\ Bill!First[m] <= a /\ a < Bill!First[m + 1]
    BY DayHasMonth
  <2> HIDE DEF m
  <2> QED BY <2>1, BillCalendar
<1>2. Bill!MonthlyDueDate(a, m) = a
  <2>1. Bill!DayOf(a) = a - Bill!First[m] + 1
    BY DEF Bill!DayOf
  <2> HIDE DEF m
  <2> QED BY <1>1, <2>1 DEF Bill!MonthlyDueDate, Bill!Smaller
<1>3. Bill!YearlyDueDate(a, Bill!YearOf(a)) = a
  <2>1. m - 1 \in Nat /\ MonthsInYear \in Nat \ {0}
    <3>1. m \in 1..Len(BillMonths) /\ Len(BillMonths) \in Nat
      BY <1>1, BillCalendar
    <3> HIDE DEF m
    <3> QED BY <3>1 DEF BillAssumptions, Bill!CalendarAssumption
  <2>2. Bill!InYear(a, Bill!YearOf(a))
          = ((m - 1) \div MonthsInYear) * MonthsInYear + ((m - 1) % MonthsInYear) + 1
    BY DEF Bill!InYear, Bill!YearOf
  <2> HIDE DEF m
  <2>3. Bill!InYear(a, Bill!YearOf(a)) = m
    <3>1. /\ (m - 1) \div MonthsInYear \in Nat /\ ((m - 1) % MonthsInYear) \in Nat
          /\ ((m - 1) \div MonthsInYear) * MonthsInYear + ((m - 1) % MonthsInYear) = m - 1
      <4>1. \A n \in Nat : /\ n \div MonthsInYear \in Nat /\ (n % MonthsInYear) \in 0..(MonthsInYear - 1)
                           /\ (n \div MonthsInYear) * MonthsInYear + (n % MonthsInYear) = n
        BY <2>1, YearsAndMonths
      <4>2. 0..(MonthsInYear - 1) \subseteq Nat
        BY <2>1
      <4> QED BY <2>1, <4>1, <4>2
    <3>2. Bill!InYear(a, Bill!YearOf(a)) = (m - 1) + 1
      BY <2>2, <3>1
    <3>3. (m - 1) + 1 = m
      BY <1>1, BillCalendar
    <3> QED BY <3>2, <3>3
  <2> QED BY <1>2, <2>3 DEF Bill!YearlyDueDate
<1> HIDE DEF m
<1>4. recurrence \in {"none", "daily", "weekly", "monthly", "yearly"}
  BY DEF Bill!Recurrences
<1>5. CASE recurrence = "none"
  BY <1>5 DEF Bill!ExpectedDueDate
<1>6. CASE recurrence = "daily"
  BY <1>1, <1>6 DEF Bill!ExpectedDueDate, Bill!Bigger
<1>7. CASE recurrence = "weekly"
  BY <1>1, <1>7 DEF Bill!ExpectedDueDate
<1>8. CASE recurrence = "monthly"
  BY <1>2, <1>8 DEF Bill!ExpectedDueDate, m
<1>9. CASE recurrence = "yearly"
  BY <1>3, <1>9 DEF Bill!ExpectedDueDate
<1> QED BY <1>4, <1>5, <1>6, <1>7, <1>8, <1>9

\* The calendar holds the next month, the next week and, of every date, the
\* next year.
LEMMA Horizon ==
    ASSUME BillAssumptions, today \in 1..LastToday
    PROVE  /\ today \in Bill!Days
           /\ Bill!MonthOf(today) + 1 \in Bill!Months
           /\ Bill!YearOf(today) \in Nat
           /\ \A a \in Bill!Days : /\ Bill!InYear(a, Bill!YearOf(today)) \in Bill!Months
                                   /\ Bill!InYear(a, Bill!YearOf(today) + 1) \in Bill!Months
                                   /\ Bill!InYear(a, Bill!YearOf(today) + 1)
                                      > Bill!InYear(a, Bill!YearOf(today))
           /\ \A d \in 1..(today + BillWeek) : d \in Bill!Days
<1> DEFINE N == Len(BillMonths)
           last == Bill!First[N + 1] - 1
           q == MonthsInYear
           k == Bill!MonthOf(today)
           l == Bill!MonthOf(LastToday)
<1>1. /\ LastToday \in Nat \ {0} /\ BillWeek \in Nat \ {0} /\ q \in Nat \ {0} /\ N \in Nat
      /\ Bill!Days = 1..last /\ Bill!Months = 1..N /\ last \in Int
  <2>1. N + 1 \in 1..(N + 1) /\ N \in Nat
    BY BillCalendar
  <2>2. Bill!First[N + 1] \in Nat
    BY <2>1, BillCalendar
  <2> QED BY <2>1, <2>2, BillCalendar DEF BillAssumptions, Bill!CalendarAssumption
<1>2. LastToday + BillWeek \in 1..last
  BY <1>1 DEF BillAssumptions, Bill!HorizonAssumption
<1> HIDE DEF last
<1>3. today \in Bill!Days /\ LastToday \in Bill!Days /\ today \in Nat
  BY <1>1, <1>2
<1>4. \A d \in 1..(today + BillWeek) : d \in Bill!Days
  BY <1>1, <1>2
<1>5. /\ k \in 1..N /\ l \in 1..N
      /\ Bill!First[k] <= today /\ LastToday < Bill!First[l + 1]
      /\ Bill!First[k] \in Nat /\ Bill!First[l + 1] \in Nat
  <2>1. /\ k \in 1..N /\ l \in 1..N
        /\ Bill!First[k] <= today /\ LastToday < Bill!First[l + 1]
    BY <1>1, <1>3, DayHasMonth
  <2> HIDE DEF k, l
  <2> QED BY <1>1, <2>1, BillCalendar
<1>6. Bill!YearOf(today) = (k - 1) \div q /\ Bill!YearOf(LastToday) = (l - 1) \div q
  BY DEF Bill!YearOf
<1> DEFINE y == (k - 1) \div q
           z == (l - 1) \div q
<1>7. (z + 2) * q <= N
  BY <1>6 DEF BillAssumptions, Bill!HorizonAssumption
<1>8. \A a \in Bill!Days : Bill!MonthOf(a) - 1 \in Nat
  <2>1. \A a \in Bill!Days : Bill!MonthOf(a) \in 1..N
    BY <1>1, DayHasMonth
  <2> QED BY <1>1, <2>1
<1>9. \A a \in Bill!Days, x \in Nat :
        Bill!InYear(a, x) = x * q + ((Bill!MonthOf(a) - 1) % q) + 1
  BY DEF Bill!InYear
<1> HIDE DEF k, l, N, q
<1>10. k <= l
  <2> SUFFICES ASSUME l < k PROVE FALSE
    BY <1>1, <1>5
  <2>1. Bill!First[l + 1] <= Bill!First[k]
    <3>1. l + 1 = k \/ l + 1 < k
      BY <1>1, <1>5
    <3>2. l + 1 \in 1..(N + 1) /\ k \in 1..(N + 1)
      BY <1>1, <1>5
    <3>3. l + 1 < k => Bill!First[l + 1] < Bill!First[k]
      BY <3>2, BillCalendar DEF N
    <3> QED BY <1>5, <3>1, <3>3
  <2> QED BY <1>1, <1>3, <1>5, <2>1
<1>11. /\ y \in Nat /\ z \in Nat
       /\ q * y <= k - 1 /\ k - 1 < q * (y + 1)
       /\ q * z <= l - 1 /\ l - 1 < q * (z + 1)
  <2>1. k - 1 \in Nat /\ l - 1 \in Nat
    BY <1>1, <1>5
  <2> QED BY <1>1, <2>1, DayOfInstant
<1> HIDE DEF y, z
<1>12. y <= z
  <2>1. q * y < q * (z + 1)
    BY <1>1, <1>5, <1>10, <1>11
  <2>2. y < z + 1
    BY <1>1, <1>11, <2>1, EarlierDays
  <2> QED BY <1>11, <2>2
<1>13. (y + 2) * q <= N
  <2>1. (y + 2) * q <= (z + 2) * q
    BY <1>1, <1>11, <1>12, MoreYears
  <2>2. (y + 2) * q \in Nat /\ (z + 2) * q \in Nat
    BY <1>1, <1>11
  <2> QED BY <1>1, <1>7, <2>1, <2>2
<1>14. /\ y * q \in Nat /\ (y + 1) * q = y * q + q /\ (y + 2) * q = y * q + 2 * q
       /\ q * (y + 1) = y * q + q
  BY <1>1, <1>11
<1>15. k + 1 \in Bill!Months
  BY <1>1, <1>5, <1>11, <1>13, <1>14
<1>16. ASSUME NEW a \in Bill!Days
       PROVE  /\ Bill!InYear(a, y) \in Bill!Months /\ Bill!InYear(a, y + 1) \in Bill!Months
              /\ Bill!InYear(a, y + 1) > Bill!InYear(a, y)
  <2> DEFINE r == (Bill!MonthOf(a) - 1) % q
  <2>1. r \in 0..(q - 1)
    BY <1>1, <1>8, YearsAndMonths
  <2>2. Bill!InYear(a, y) = y * q + r + 1 /\ Bill!InYear(a, y + 1) = (y + 1) * q + r + 1
    BY <1>9, <1>11
  <2> HIDE DEF r
  <2>3. (y + 1) * q + r + 1 <= N /\ y * q + r + 1 >= 1
    BY <1>1, <1>13, <1>14, <2>1
  <2> QED BY <1>1, <1>14, <2>1, <2>2, <2>3
<1> QED BY <1>3, <1>4, <1>6, <1>11, <1>15, <1>16 DEF k, y, q

\* Every due date that a device shows of a bill is one of the server's schedule.
LEMMA ShownScheduled ==
    ASSUME BillAssumptions, NEW b \in Bill!Reminder, b.anchor <= LastToday, today \in 1..LastToday,
           b.recurrence = "weekly" => NoClockChange,
           Bill!DueForList(b) # None
    PROVE  /\ Bill!OnSchedule(b, Bill!DateOf(Bill!DueForList(b)))
           /\ Bill!DateOf(Bill!DueForList(b)) \in Bill!Days
<1> DEFINE a == b.anchor
           t == Bill!DueForList(b)
           Good(d) == /\ d \in Bill!Days /\ d >= a
                      /\ Bill!ExpectedDueDate(a, b.recurrence, d) = d
<1> SUFFICES Bill!OnSchedule(b, Bill!DateOf(t)) /\ Bill!DateOf(t) \in Bill!Days
  OBVIOUS
<1>1. a \in Bill!Days /\ b.recurrence \in Bill!Recurrences /\ b.active
  BY DEF Bill!Reminder, Bill!DueForList
<1>2. Bill!Days \subseteq Nat \ {0} /\ a \in Nat \ {0}
  BY <1>1, BillCalendar
<1>3. Good(a)
  BY <1>1, <1>2, AnchorScheduled
<1>4. today \in Bill!Days /\ today \in Nat \ {0}
  BY <1>2, Horizon
<1>5. ASSUME NEW d \in Bill!Days, t = Bill!Start(d), Good(d)
      PROVE  Bill!OnSchedule(b, Bill!DateOf(t)) /\ Bill!DateOf(t) \in Bill!Days
  <2>1. Bill!DateOf(t) = d
    BY <1>2, <1>5, DateOfStart
  <2> HIDE DEF t
  <2> QED BY <1>5, <2>1 DEF Bill!OnSchedule
<1>6. ASSUME NEW c \in Bill!Days, NEW n, Bill!InPeriod(b, Bill!Start(c), n) = t
      PROVE  \/ t = Bill!Start(a)
             \/ c >= a /\ t = Bill!Start(c)
             \/ c >= a /\ t = n
  <2>1. Bill!Start(a) > Bill!Start(c) \/ c >= a
    BY <1>2, StartsLater
  <2> HIDE DEF t, a
  <2> QED BY <1>6, <2>1 DEF Bill!InPeriod, a
<1>7. b.recurrence \in {"none", "daily", "weekly", "monthly", "yearly"}
  BY <1>1 DEF Bill!Recurrences
<1>8. CASE b.recurrence = "none"
  <2>1. t = Bill!Start(a)
    BY <1>1, <1>8 DEF Bill!DueForList
  <2> HIDE DEF t, a, Good
  <2> QED BY <1>1, <1>3, <1>5, <2>1
<1>9. CASE b.recurrence = "daily"
  <2>1. Bill!InPeriod(b, Bill!Start(today), Bill!Start(today) + 24) = t
    BY <1>1, <1>9 DEF Bill!DueForList
  <2>2. \A d \in Bill!Days : d >= a => Good(d)
    BY <1>2, <1>9 DEF Bill!ExpectedDueDate, Bill!Bigger
  <2>3. today + 1 \in Bill!Days
    <3>1. BillWeek \in Nat \ {0}
      BY DEF BillAssumptions, Bill!CalendarAssumption
    <3>2. today + 1 \in 1..(today + BillWeek)
      BY <1>4, <3>1
    <3> QED BY <3>2, Horizon
  <2>4. \/ Bill!DateOf(Bill!Start(today) + 24) = today
        \/ Bill!DateOf(Bill!Start(today) + 24) = today + 1
    <3>1. Bill!Start(today) + 24 \in Nat
      BY <1>4 DEF Bill!Start, BillAssumptions, Bill!CalendarAssumption
    <3>2. \/ /\ Bill!Start(today) <= Bill!Start(today) + 24
             /\ Bill!Start(today) + 24 < Bill!Start(today + 1)
          \/ /\ Bill!Start(today + 1) <= Bill!Start(today) + 24
             /\ Bill!Start(today) + 24 < Bill!Start(today + 1 + 1)
      BY <1>4 DEF Bill!Start, BillAssumptions, Bill!CalendarAssumption
    <3>3. today \in Nat /\ today + 1 \in Nat
      BY <1>4
    <3> QED BY <3>1, <3>2, <3>3, DateOfInstant
  <2>5. CASE t = Bill!Start(a)
    <3> HIDE DEF t, a, Good
    <3> QED BY <1>1, <1>3, <1>5, <2>5
  <2>6. CASE today >= a /\ t = Bill!Start(today)
    <3> HIDE DEF t, a, Good
    <3> QED BY <1>4, <1>5, <2>2, <2>6
  <2>7. CASE today >= a /\ t = Bill!Start(today) + 24
    <3>1. Good(today) /\ Good(today + 1)
      BY <1>2, <1>4, <2>2, <2>3, <2>7
    <3>2. Bill!DateOf(t) = today \/ Bill!DateOf(t) = today + 1
      <4> HIDE DEF t
      <4> QED BY <2>4, <2>7
    <3> HIDE DEF t
    <3> QED BY <3>1, <3>2 DEF Bill!OnSchedule
  <2> HIDE DEF t, a, Good
  <2> QED BY <1>4, <1>6, <2>1, <2>5, <2>6, <2>7
<1>10. CASE b.recurrence = "weekly"
  <2> DEFINE w == BillWeek
             e == ((Bill!Start(today) - Bill!Start(a)) \div 24) \div w
             c == IF a > today THEN a ELSE a + e * w
  <2>1. NoClockChange
    BY <1>10
  <2>2. \A d \in Nat : Bill!Start(d) = 24 * d
    BY <2>1 DEF Bill!Start, NoClockChange, BillAssumptions, Bill!CalendarAssumption
  <2>3. w \in Nat \ {0}
    BY DEF BillAssumptions, Bill!CalendarAssumption
  <2>4. ASSUME a <= today PROVE e \in Nat /\ a + e * w <= today /\ e * w \in Nat
    <3>1. (Bill!Start(today) - Bill!Start(a)) \div 24 = today - a /\ today - a \in Nat
      BY <1>2, <1>4, <2>2, <2>4
    <3>2. e = (today - a) \div w
      BY <3>1
    <3> HIDE DEF e, w
    <3>3. e \in Nat /\ w * e <= today - a
      BY <2>3, <3>1, <3>2, DayOfInstant DEF w
    <3> QED BY <1>2, <1>4, <2>3, <3>3
  <2>5. ASSUME NEW k \in Nat, a + k * w \in Bill!Days
        PROVE  Good(a + k * w)
    <3> DEFINE x == k * w
    <3>1. x \in Nat
      BY <2>3
    <3>2. x \div w = k
      <4>1. 0 \in 0..(w - 1) /\ k * w + 0 = x
        BY <2>3
      <4> HIDE DEF w
      <4> QED BY <2>3, <4>1, OneQuotient DEF w
    <3>3. (a + x) - a = x
      BY <1>2, <3>1
    <3>4. Bill!ExpectedDueDate(a, "weekly", a + x)
            = IF a + x <= a THEN a ELSE a + (((a + x) - a) \div w) * w
      BY DEF Bill!ExpectedDueDate
    <3>5. Bill!ExpectedDueDate(a, "weekly", a + x) = a + x
      <4>1. CASE x = 0
        BY <1>2, <3>4, <4>1
      <4>2. CASE x # 0
        <5>1. ~(a + x <= a)
          BY <1>2, <3>1, <4>2
        <5>2. (((a + x) - a) \div w) * w = x
          BY <3>2, <3>3
        <5> HIDE DEF x, w
        <5> QED BY <3>4, <5>1, <5>2
      <4> QED BY <4>1, <4>2
    <3>6. a + x >= a
      BY <1>2, <3>1
    <3> HIDE DEF x, a
    <3> QED BY <1>10, <2>5, <3>5, <3>6 DEF x
  <2>6. c \in Bill!Days /\ Good(c)
    <3>1. CASE a > today
      BY <1>1, <1>3, <3>1
    <3>2. CASE ~(a > today)
      <4>1. a <= today
        BY <1>2, <1>4, <3>2
      <4>2. e \in Nat /\ a + e * w <= today /\ e * w \in Nat
        BY <2>4, <4>1
      <4> HIDE DEF e
      <4>3. a + e * w \in 1..(today + w)
        BY <1>2, <1>4, <2>3, <4>2
      <4>4. a + e * w \in Bill!Days
        BY <4>3, Horizon
      <4> HIDE DEF Good
      <4> QED BY <2>5, <3>2, <4>2, <4>4
    <3> QED BY <3>1, <3>2
  <2>7. c + w \in Bill!Days /\ Good(c + w) /\ c >= a
    <3>1. PICK k \in Nat : k * w \in Nat /\ c = a + k * w /\ c <= LastToday
      <4>1. CASE a > today
        <5>1. 0 \in Nat /\ 0 * w = 0 /\ c = a + 0
          BY <1>2, <2>3, <4>1
        <5> HIDE DEF c
        <5> QED BY <1>2, <5>1
      <4>2. CASE ~(a > today)
        <5>1. e \in Nat /\ a + e * w <= today /\ e * w \in Nat /\ c = a + e * w
          BY <1>2, <1>4, <2>4, <4>2
        <5>2. today <= LastToday
          BY DEF BillAssumptions, Bill!CalendarAssumption
        <5>3. LastToday \in Nat
          BY DEF BillAssumptions, Bill!CalendarAssumption
        <5> HIDE DEF e, c
        <5> QED BY <1>2, <1>4, <5>1, <5>2, <5>3
      <4> QED BY <4>1, <4>2
    <3>2. LastToday + w \in 1..(Bill!First[Len(BillMonths) + 1] - 1)
      BY BillCalendar DEF BillAssumptions, Bill!HorizonAssumption
    <3>3. LastToday \in Nat /\ Len(BillMonths) + 1 \in 1..(Len(BillMonths) + 1)
      BY BillCalendar DEF BillAssumptions, Bill!CalendarAssumption
    <3>4. Bill!First[Len(BillMonths) + 1] \in Nat
      BY <3>3, BillCalendar
    <3> HIDE DEF c
    <3>5. c + w = a + (k + 1) * w /\ c >= a
      BY <1>2, <2>3, <3>1
    <3>6. c + w \in 1..(Bill!First[Len(BillMonths) + 1] - 1)
      <4> DEFINE last == Bill!First[Len(BillMonths) + 1] - 1
      <4>1. last \in Int
        BY <3>4
      <4>2. c \in Nat /\ c <= LastToday
        BY <1>2, <3>1
      <4> HIDE DEF last, w
      <4> QED BY <2>3, <3>2, <3>3, <4>1, <4>2 DEF last
    <3>7. c + w \in Bill!Days
      BY <3>6, BillCalendar
    <3> HIDE DEF Good
    <3> QED BY <2>5, <3>1, <3>5, <3>7
  <2>8. Bill!ShownWeekly(a, today) = Bill!Start(c)
    <3>1. CASE a > today
      BY <3>1 DEF Bill!ShownWeekly
    <3>2. CASE ~(a > today)
      <4>1. e * w \in Nat /\ e \in Nat
        BY <1>2, <1>4, <2>4, <3>2
      <4>2. Bill!ShownWeekly(a, today) = Bill!Start(a) + e * w * 24
        BY <3>2 DEF Bill!ShownWeekly
      <4>3. c = a + e * w
        BY <3>2
      <4> HIDE DEF e, c
      <4>4. Bill!Start(c) = 24 * (a + e * w) /\ Bill!Start(a) = 24 * a
        BY <1>2, <2>2, <4>1, <4>3
      <4> QED BY <1>2, <2>3, <4>1, <4>2, <4>4
    <3> QED BY <3>1, <3>2
  <2> HIDE DEF c, e
  <2>9. Bill!InPeriod(b, Bill!Start(c), Bill!Start(Bill!DateOf(Bill!Start(c))) + w * 24) = t
    BY <1>1, <1>10, <2>8 DEF Bill!DueForList
  <2>10. Bill!Start(Bill!DateOf(Bill!Start(c))) + w * 24 = Bill!Start(c + w)
    <3>1. Bill!DateOf(Bill!Start(c)) = c /\ c \in Nat
      BY <1>2, <2>6, DateOfStart
    <3>2. Bill!Start(c) = 24 * c /\ Bill!Start(c + w) = 24 * (c + w)
      BY <2>2, <2>3, <3>1
    <3> QED BY <2>3, <3>1, <3>2
  <2>11. Bill!InPeriod(b, Bill!Start(c), Bill!Start(c + w)) = t
    BY <2>9, <2>10
  <2>12. t = Bill!Start(a) \/ t = Bill!Start(c) \/ t = Bill!Start(c + w)
    <3> HIDE DEF t, Good
    <3> QED BY <1>6, <2>6, <2>11
  <2> HIDE DEF t, a, Good
  <2> QED BY <1>1, <1>3, <1>5, <2>6, <2>7, <2>12
<1>11. CASE b.recurrence = "monthly"
  <2> DEFINE m == Bill!MonthOf(today)
             c == Bill!MonthlyDueDate(a, m)
             n == Bill!MonthlyDueDate(a, m + 1)
  <2>1. m \in Bill!Months /\ m + 1 \in Bill!Months
    BY <1>4, DayHasMonth, Horizon
  <2>2. /\ c \in Bill!Days /\ Bill!MonthOf(c) = m /\ c < Bill!First[m + 1]
        /\ Bill!ShownMonthly(a, m) = Bill!Start(c)
    BY <1>1, <2>1, MonthlyFits
  <2>3. /\ n \in Bill!Days /\ Bill!MonthOf(n) = m + 1 /\ Bill!First[m + 1] <= n
        /\ Bill!ShownMonthly(a, m + 1) = Bill!Start(n)
    BY <1>1, <2>1, MonthlyFits
  <2>4. Bill!InPeriod(b, Bill!ShownMonthly(a, m), Bill!ShownMonthly(a, m + 1)) = t
    BY <1>1, <1>11 DEF Bill!DueForList
  <2>5. c < n
    <3>1. Bill!First[m + 1] \in Nat
      BY <2>1, BillCalendar
    <3> HIDE DEF c, n, m
    <3> QED BY <1>2, <2>2, <2>3, <3>1
  <2>6. \A d \in Bill!Days :
          Bill!ExpectedDueDate(a, b.recurrence, d) = Bill!MonthlyDueDate(a, Bill!MonthOf(d))
    BY <1>11 DEF Bill!ExpectedDueDate
  <2>7. Bill!ExpectedDueDate(a, b.recurrence, c) = c /\ Bill!ExpectedDueDate(a, b.recurrence, n) = n
    BY <2>2, <2>3, <2>6
  <2> HIDE DEF c, n, m
  <2>8. Bill!InPeriod(b, Bill!Start(c), Bill!Start(n)) = t
    BY <2>2, <2>3, <2>4
  <2>9. \/ t = Bill!Start(a)
        \/ c >= a /\ t = Bill!Start(c)
        \/ c >= a /\ t = Bill!Start(n)
    <3> HIDE DEF t, a, Good
    <3> QED BY <1>6, <2>2, <2>8
  <2>10. c >= a => Good(c) /\ Good(n)
    BY <1>2, <2>2, <2>3, <2>5, <2>7
  <2> HIDE DEF t, a, Good
  <2> QED BY <1>1, <1>3, <1>5, <2>2, <2>3, <2>9, <2>10
<1>12. CASE b.recurrence = "yearly"
  <2> DEFINE y == Bill!YearOf(today)
             k == Bill!InYear(a, y)
             l == Bill!InYear(a, y + 1)
             c == Bill!MonthlyDueDate(a, k)
             n == Bill!MonthlyDueDate(a, l)
  <2>1. y \in Nat /\ k \in Bill!Months /\ l \in Bill!Months /\ k < l
    BY <1>1, Horizon
  <2>2. /\ c \in Bill!Days /\ c < Bill!First[k + 1]
        /\ Bill!ShownMonthly(a, k) = Bill!Start(c)
    BY <1>1, <2>1, MonthlyFits
  <2>3. /\ n \in Bill!Days /\ Bill!First[l] <= n
        /\ Bill!ShownMonthly(a, l) = Bill!Start(n)
    BY <1>1, <2>1, MonthlyFits
  <2>4. Bill!InPeriod(b, Bill!ShownYearly(a, y), Bill!ShownYearly(a, y + 1)) = t
    BY <1>1, <1>12 DEF Bill!DueForList
  <2>5. Bill!ShownYearly(a, y) = Bill!ShownMonthly(a, k)
        /\ Bill!ShownYearly(a, y + 1) = Bill!ShownMonthly(a, l)
    BY DEF Bill!ShownYearly
  <2>6. c = Bill!YearlyDueDate(a, y) /\ n = Bill!YearlyDueDate(a, y + 1)
    BY DEF Bill!YearlyDueDate
  <2>7. Bill!YearOf(c) = y /\ Bill!YearOf(n) = y + 1
    <3>1. Bill!YearOf(Bill!YearlyDueDate(a, y)) = y
      BY <1>1, <2>1, YearlyFits
    <3>2. y + 1 \in Nat
      BY <2>1
    <3>3. Bill!YearOf(Bill!YearlyDueDate(a, y + 1)) = y + 1
      BY <1>1, <2>1, <3>2, YearlyFits
    <3> QED BY <2>6, <3>1, <3>3
  <2> HIDE DEF c, n
  <2>8. c < n
    <3>1. Bill!First[k + 1] <= Bill!First[l] /\ Bill!First[k + 1] \in Nat /\ Bill!First[l] \in Nat
      <4> HIDE DEF k, l
      <4>1. /\ Len(BillMonths) \in Nat
            /\ k \in 1..Len(BillMonths) /\ l \in 1..Len(BillMonths)
        BY <2>1, BillCalendar
      <4>2. k + 1 \in 1..(Len(BillMonths) + 1) /\ l \in 1..(Len(BillMonths) + 1)
        BY <4>1
      <4>3. Bill!First[k + 1] \in Nat /\ Bill!First[l] \in Nat
        BY <2>1, BillCalendar
      <4>4. k + 1 = l \/ k + 1 < l
        BY <2>1, <4>1
      <4>5. k + 1 < l => Bill!First[k + 1] < Bill!First[l]
        BY <4>2, BillCalendar
      <4> QED BY <4>3, <4>4, <4>5
    <3> HIDE DEF k, l
    <3> QED BY <1>2, <2>2, <2>3, <3>1
  <2>9. \A d \in Bill!Days :
          Bill!ExpectedDueDate(a, b.recurrence, d) = Bill!YearlyDueDate(a, Bill!YearOf(d))
    BY <1>12 DEF Bill!ExpectedDueDate
  <2>10. Bill!ExpectedDueDate(a, b.recurrence, c) = c /\ Bill!ExpectedDueDate(a, b.recurrence, n) = n
    BY <2>2, <2>3, <2>6, <2>7, <2>9
  <2>11. Bill!InPeriod(b, Bill!Start(c), Bill!Start(n)) = t
    BY <2>2, <2>3, <2>4, <2>5
  <2> HIDE DEF k, l, y
  <2>12. \/ t = Bill!Start(a)
         \/ c >= a /\ t = Bill!Start(c)
         \/ c >= a /\ t = Bill!Start(n)
    <3> HIDE DEF t, a, Good
    <3> QED BY <1>6, <2>2, <2>11
  <2>13. c >= a => Good(c) /\ Good(n)
    BY <1>2, <2>2, <2>3, <2>8, <2>10
  <2> HIDE DEF t, a, Good
  <2> QED BY <1>1, <1>3, <1>5, <2>2, <2>3, <2>12, <2>13
<1> QED BY <1>7, <1>8, <1>9, <1>10, <1>11, <1>12

\* What a device has loaded has the schedule of the bill, however old it is.
SameSchedule(b, c) == b.anchor = c.anchor /\ b.recurrence = c.recurrence

BillIInv ==
    /\ Bill!TypeOK
    /\ bill.anchor <= LastToday
    /\ \A d \in Devices : loaded[d] # None => loaded[d] \in Bill!Reminder /\ SameSchedule(loaded[d], bill)

\* A bill whose weeks no change of the clocks disturbs.
EvenWeeks == bill.recurrence = "weekly" => NoClockChange

\* What the invariant is for.
LEMMA BillInvariantSuffices ==
    ASSUME BillAssumptions, BillIInv, EvenWeeks PROVE Bill!TypeOK /\ Bill!ShownIsAccepted
<1>1. ASSUME NEW d \in Devices, Bill!Shown(d) # None
      PROVE  Bill!OnSchedule(bill, Bill!DateOf(Bill!Shown(d)))
  <2>1. loaded[d] # None /\ Bill!Shown(d) = Bill!DueForList(loaded[d])
    BY <1>1 DEF Bill!Shown
  <2>2. /\ loaded[d] \in Bill!Reminder /\ loaded[d].anchor = bill.anchor
        /\ loaded[d].recurrence = bill.recurrence
    BY <2>1 DEF BillIInv, SameSchedule
  <2>3. /\ loaded[d].anchor <= LastToday /\ today \in 1..LastToday
        /\ loaded[d].recurrence = "weekly" => NoClockChange
    BY <2>2 DEF BillIInv, Bill!TypeOK, EvenWeeks
  <2>4. Bill!OnSchedule(loaded[d], Bill!DateOf(Bill!DueForList(loaded[d])))
    BY <1>1, <2>1, <2>2, <2>3, ShownScheduled
  <2> QED BY <2>1, <2>2, <2>4 DEF Bill!OnSchedule
<1> QED BY <1>1 DEF BillIInv, Bill!ShownIsAccepted

\* Nothing is loaded at first.
LEMMA BillInitHolds == ASSUME BillAssumptions, Bill!Init PROVE BillIInv
<1>1. bill \in Bill!Reminder /\ bill.anchor <= LastToday
  BY DEF Bill!Init
<1>2. loaded \in [Devices -> Bill!Reminder \cup {None}] /\ \A d \in Devices : loaded[d] = None
  BY DEF Bill!Init
<1>3. today \in 1..LastToday
  BY DEF Bill!Init, BillAssumptions, Bill!CalendarAssumption
<1> QED BY <1>1, <1>2, <1>3 DEF BillIInv, Bill!TypeOK

\* A step that keeps the bill's schedule, and loads at most the bill it leaves.
LEMMA BillStep ==
    ASSUME BillIInv, bill' \in Bill!Reminder, SameSchedule(bill', bill), today' \in 1..LastToday,
           \/ loaded' = loaded
           \/ \E d \in Devices : loaded' = [loaded EXCEPT ![d] = Bill!Listed(bill')]
    PROVE  BillIInv' /\ (EvenWeeks => EvenWeeks')
<1>1. Bill!Listed(bill') \in {bill', None}
  BY DEF Bill!Listed
<1>2. loaded' \in [Devices -> Bill!Reminder \cup {None}]
  BY <1>1 DEF BillIInv, Bill!TypeOK
<1>3. \A d \in Devices : loaded'[d] \in {loaded[d], bill', None}
  BY <1>1 DEF BillIInv, Bill!TypeOK
<1>4. \A d \in Devices : loaded'[d] # None =>
                           loaded'[d] \in Bill!Reminder /\ SameSchedule(loaded'[d], bill')
  <2> SUFFICES ASSUME NEW d \in Devices, loaded'[d] # None
               PROVE  loaded'[d] \in Bill!Reminder /\ SameSchedule(loaded'[d], bill')
    OBVIOUS
  <2>1. CASE loaded'[d] = bill'
    BY <2>1 DEF SameSchedule
  <2>2. CASE loaded'[d] = loaded[d]
    BY <2>2 DEF SameSchedule, BillIInv
  <2> QED BY <1>3, <2>1, <2>2
<1>5. bill'.anchor <= LastToday /\ bill'.recurrence = bill.recurrence
  BY DEF BillIInv, SameSchedule
<1> QED BY <1>2, <1>4, <1>5 DEF BillIInv, Bill!TypeOK, EvenWeeks, NoClockChange

\* What is sent is a date of the calendar.
LEMMA SentIsDay ==
    ASSUME BillAssumptions, BillIInv, EvenWeeks, NEW d \in Devices, Bill!Shown(d) # None
    PROVE  Bill!DateOf(Bill!Shown(d)) \in Bill!Days
<1>1. loaded[d] # None /\ Bill!Shown(d) = Bill!DueForList(loaded[d])
  BY DEF Bill!Shown
<1>2. /\ loaded[d] \in Bill!Reminder /\ loaded[d].anchor = bill.anchor
      /\ loaded[d].recurrence = bill.recurrence
  BY <1>1 DEF BillIInv, SameSchedule
<1>3. /\ loaded[d].anchor <= LastToday /\ today \in 1..LastToday
      /\ loaded[d].recurrence = "weekly" => NoClockChange
  BY <1>2 DEF BillIInv, Bill!TypeOK, EvenWeeks
<1> QED BY <1>1, <1>2, <1>3, ShownScheduled

\* Every step is one of these.
LEMMA BillNextKept ==
    ASSUME BillAssumptions, BillIInv, EvenWeeks, [Bill!Next]_(Bill!vars)
    PROVE  BillIInv' /\ EvenWeeks'
<1>1. bill \in Bill!Reminder /\ today \in 1..LastToday /\ LastToday \in Nat
  BY DEF BillIInv, Bill!TypeOK, BillAssumptions, Bill!CalendarAssumption
<1>2. SameSchedule(bill, bill)
  BY DEF SameSchedule
<1>3. CASE Bill!Tomorrow
  <2>1. today' \in 1..LastToday /\ bill' = bill /\ loaded' = loaded
    BY <1>1, <1>3 DEF Bill!Tomorrow
  <2> QED BY <1>1, <1>2, <2>1, BillStep
<1>4. ASSUME NEW d \in Devices, Bill!Load(d) PROVE BillIInv' /\ EvenWeeks'
  <2>1. today' = today /\ bill' = bill /\ loaded' = [loaded EXCEPT ![d] = Bill!Listed(bill')]
    BY <1>4 DEF Bill!Load
  <2> QED BY <1>1, <1>2, <2>1, BillStep
<1>5. ASSUME NEW d \in Devices, Bill!MarkPaid(d) PROVE BillIInv' /\ EvenWeeks'
  <2> DEFINE due == Bill!DateOf(Bill!Shown(d))
  <2>1. due \in Bill!Days
    BY <1>5, SentIsDay DEF Bill!MarkPaid
  <2>2. /\ bill' = [bill EXCEPT !.paid = Bill!Bigger(@, due)] /\ today' = today
        /\ loaded' = [loaded EXCEPT ![d] = Bill!Listed(bill')]
    BY <1>5 DEF Bill!MarkPaid
  <2> HIDE DEF due
  <2>3. bill' \in Bill!Reminder /\ SameSchedule(bill', bill)
    BY <1>1, <2>1, <2>2 DEF Bill!Reminder, Bill!Bigger, SameSchedule
  <2> QED BY <1>1, <2>2, <2>3, BillStep
<1>6. ASSUME NEW d \in Devices, Bill!Skip(d) PROVE BillIInv' /\ EvenWeeks'
  <2> DEFINE due == Bill!DateOf(Bill!Shown(d))
  <2>1. due \in Bill!Days
    BY <1>6, SentIsDay DEF Bill!Skip
  <2>2. /\ bill' = [bill EXCEPT !.skipped = Bill!Bigger(@, due)] /\ today' = today
        /\ loaded' = [loaded EXCEPT ![d] = Bill!Listed(bill')]
    BY <1>6 DEF Bill!Skip
  <2> HIDE DEF due
  <2>3. bill' \in Bill!Reminder /\ SameSchedule(bill', bill)
    BY <1>1, <2>1, <2>2 DEF Bill!Reminder, Bill!Bigger, SameSchedule
  <2> QED BY <1>1, <2>2, <2>3, BillStep
<1>7. ASSUME NEW d \in Devices, Bill!Delete(d) PROVE BillIInv' /\ EvenWeeks'
  <2>1. /\ bill' = [bill EXCEPT !.active = FALSE] /\ today' = today
        /\ loaded' = [loaded EXCEPT ![d] = Bill!Listed(bill')]
    BY <1>7 DEF Bill!Delete
  <2>2. bill' \in Bill!Reminder /\ SameSchedule(bill', bill)
    BY <1>1, <2>1 DEF Bill!Reminder, SameSchedule
  <2> QED BY <1>1, <2>1, <2>2, BillStep
<1>8. CASE UNCHANGED Bill!vars
  <2>1. bill' = bill /\ loaded' = loaded /\ today' = today
    BY <1>8 DEF Bill!vars
  <2> QED BY <1>1, <1>2, <2>1, BillStep
<1> QED BY <1>3, <1>4, <1>5, <1>6, <1>7, <1>8 DEF Bill!Next

\* For any calendar, any bill and any number of devices with lists of any age:
\* the server accepts every due date that is shown, unless the bill is weekly
\* and the clocks change.
THEOREM BillTheorem ==
    ASSUME BillAssumptions
    PROVE  Bill!Spec /\ EvenWeeks => [](Bill!TypeOK /\ Bill!ShownIsAccepted)
<1>1. Bill!Init => BillIInv
  BY BillInitHolds
<1>2. BillIInv /\ EvenWeeks /\ [Bill!Next]_(Bill!vars) => BillIInv' /\ EvenWeeks'
  BY BillNextKept
<1>3. BillIInv /\ EvenWeeks => Bill!TypeOK /\ Bill!ShownIsAccepted
  BY BillInvariantSuffices
<1> QED BY <1>1, <1>2, <1>3, PTL DEF Bill!Spec

-----------------------------------------------------------------------------
(* All parts of a user's data.                                             *)

\* A behaviour of the parts together is one of each part that begins as itself.
LEMMA StepsOfParts ==
    ASSUME [AllNext]_allVars
    PROVE  /\ UNCHANGED part
           /\ [Next]_vars
           /\ [Transaction!Next]_(Transaction!vars)
           /\ [Rates!Next]_(Rates!vars)
           /\ [Bill!Next]_(Bill!vars)
           /\ [Trend!Next]_(Trend!vars)
           /\ [Parts!Next]_(Parts!vars)
BY DEF AllNext, allVars, transactionVars, billVars, rateVars, trendVars, breakdownVars,
       Transaction!vars, Bill!vars, Rates!vars, Trend!vars, Parts!vars

\* Whatever part of the data moves, categories, transactions and rates behave as
\* their specifications say, and so do a bill, the trend and the breakdown where
\* they are looked at.
THEOREM PartsTheorem ==
    AllSpec => /\ Spec /\ Transaction!Spec /\ Rates!Spec
               /\ part = "bill" => Bill!Spec
               /\ part = "trend" => Trend!Spec
               /\ part = "breakdown" => Parts!Spec
<1>1. AllInit => /\ Init /\ Transaction!Init /\ Rates!Init
                 /\ part = "bill" => Bill!Init
                 /\ part = "trend" => Trend!Init
                 /\ part = "breakdown" => Parts!Init
  BY DEF AllInit
<1>2. [AllNext]_allVars => /\ [Next]_vars /\ [Transaction!Next]_(Transaction!vars)
                          /\ [Rates!Next]_(Rates!vars) /\ [Bill!Next]_(Bill!vars)
                          /\ [Trend!Next]_(Trend!vars) /\ [Parts!Next]_(Parts!vars)
  BY StepsOfParts
<1> QED BY <1>1, <1>2, PTL DEF AllSpec, Spec, Transaction!Spec, Rates!Spec, Bill!Spec, Trend!Spec,
    Parts!Spec

\* Beside the other parts, a save is refused for its line numbers at most once, after
\* the worker committed a receipt's items in the middle of it.
THEOREM AllEdits == ASSUME Transaction!Assumptions PROVE AllSpec => []EditsAreStored
<1>1. Transaction!TypeOK /\ Transaction!EditsAreStored => EditsAreStored
  BY DEF EditsAreStored
<1> QED BY <1>1, PartsTheorem, Transaction!TransactionTypes, Transaction!EditsTheorem, PTL

\* Beside the other parts, no item is shown with a translation of another name.
THEOREM AllTranslations ==
    ASSUME Transaction!Assumptions PROVE AllSpec => []TranslationFitsName
<1>1. Transaction!TranslationFitsName => TranslationFitsName
  BY DEF TranslationFitsName
<1> QED BY <1>1, PartsTheorem, Transaction!TranslationTheorem, PTL

\* Beside the other parts, an import of what was just exported restores it.
THEOREM AllImports == ASSUME Transaction!Assumptions PROVE AllSpec => ImportRestores
  BY PartsTheorem, Transaction!ImportTheorem, PTL DEF ImportRestores

\* Beside the other parts, a rate is of the day it is said to be of.
THEOREM AllRates == ASSUME RatesAssumptions PROVE AllSpec => []RatesAreHonest
<1>1. Rates!TypeOK /\ Rates!RatesAreHonest => RatesAreHonest
  BY DEF RatesAreHonest
<1> QED BY <1>1, PartsTheorem, RateTypes, RatesTheorem, PTL

\* Beside the other parts, the views of the spending agree.
THEOREM AllBreakdowns == ASSUME Parts!CategoriesAssumption PROVE AllSpec => []DrillDownAgrees
<1>1. Parts!TypeOK /\ Parts!DrillDownAgrees => DrillDownAgrees
  BY DEF DrillDownAgrees
<1>2. ~(part = "breakdown") => DrillDownAgrees
  BY DEF DrillDownAgrees
<1>3. [AllNext]_allVars => UNCHANGED part
  BY StepsOfParts
<1>4. ~(part = "breakdown") /\ UNCHANGED part => ~(part = "breakdown")'
  OBVIOUS
<1> QED BY <1>1, <1>2, <1>3, <1>4, PartsTheorem, Parts!BreakdownTypes, Parts!DrillDownTheorem, PTL
    DEF AllSpec

\* Beside the other parts, the server accepts every due date that is shown.
THEOREM AllBills == ASSUME BillAssumptions PROVE AllSpec /\ EvenWeeks => []ShownIsAccepted
<1>1. Bill!TypeOK /\ Bill!ShownIsAccepted => ShownIsAccepted
  BY DEF ShownIsAccepted
<1>2. ~(part = "bill") => ShownIsAccepted
  BY DEF ShownIsAccepted
<1>3. [AllNext]_allVars => UNCHANGED part
  BY StepsOfParts
<1>4. ~(part = "bill") /\ UNCHANGED part => ~(part = "bill")'
  OBVIOUS
<1> QED BY <1>1, <1>2, <1>3, <1>4, PartsTheorem, BillTheorem, PTL DEF AllSpec

\* Beside the other parts, a trend counts the spending of its range once.
THEOREM AllTrends == ASSUME TrendAssumptions PROVE AllSpec => []TrendCountsOnce
<1>1. Trend!TypeOK /\ Trend!TrendCountsOnce => TrendCountsOnce
  BY DEF TrendCountsOnce
<1>2. ~(part = "trend") => TrendCountsOnce
  BY DEF TrendCountsOnce
<1>3. [AllNext]_allVars => UNCHANGED part
  BY StepsOfParts
<1>4. ~(part = "trend") /\ UNCHANGED part => ~(part = "trend")'
  OBVIOUS
<1> QED BY <1>1, <1>2, <1>3, <1>4, PartsTheorem, TrendTheorem, PTL DEF AllSpec

=============================================================================
