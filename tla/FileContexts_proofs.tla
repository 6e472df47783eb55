------------------------- MODULE FileContexts_proofs ------------------------
(***************************************************************************)
(* The contexts of file objects: the table and the requests hold exactly   *)
(* the references there are, and what a request tells of its file is what  *)
(* its opening left there, for any number of files, requests and clients.  *)
(***************************************************************************)
EXTENDS FileContexts, FiniteSetTheorems, TLAPS

Opening == {"late", "completion", "returned", "name"}

Labels == Opening \cup {"none", "original", "get", "info", "delete", "end"}

File == [opener : Clients \cup {Nobody},
         state : {"none", "opening", "open", "cleaned"}]

Context == [opener : Clients \cup {Nobody}, refs : Int, named : BOOLEAN]

Request == [at : Labels, kind : {"none", "create", "request", "cleanup"},
            file : FileObjects \cup {Nobody}, caught : BOOLEAN,
            client : Clients \cup {Nobody}, holds : Places \cup {Nobody},
            success : BOOLEAN]

TypeOK ==
  /\ loaded \in BOOLEAN
  /\ file \in [FileObjects -> File]
  /\ table \in [FileObjects -> Places \cup {Nobody}]
  /\ context \in [Places -> Context]
  /\ req \in [Requests -> Request]

-----------------------------------------------------------------------------
(* The references.                                                         *)

Entries(x) == {f \in FileObjects : table[f] = x}
Holders(x) == {r \in Requests : req[r].holds = x}

RefsOK ==
  \A x \in Places :
    context[x].refs = Cardinality(Entries(x)) + Cardinality(Holders(x))

\* A place in memory is free, or has a context with its opener.
PlacesOK ==
  \A x \in Places :
    context[x] = Freed \/ (context[x].refs > 0 /\ context[x].opener # Nobody)

\* No context is in the table for two files.
OneEntry ==
  \A f, g \in FileObjects : table[f] = table[g] /\ table[f] # Nobody => f = g

-----------------------------------------------------------------------------
(* The requests and their files.                                           *)

RequestOK(r) ==
  LET q == req[r] IN
  /\ q.at = "none" => q = NoRequest
  /\ q.at # "none" => q.file # Nobody /\ q.kind # "none"
  /\ q.at \in Opening \cup {"original"} => q.kind = "create"
  /\ q.at \in Opening => q.caught /\ q.success
  /\ q.at \in {"get", "info", "delete"} => q.kind # "create"
  /\ q.at = "delete" => q.kind = "cleanup"
  /\ q.holds # Nobody => q.at = "info"
  /\ q.kind = "create" =>
       /\ file[q.file].state = "opening"
       /\ q.caught => q.client = file[q.file].opener
       /\ q.caught \/ q.file \in unknown
  /\ q.kind = "request" => file[q.file].state \in {"open", "cleaned"}
  /\ q.kind = "cleanup" => file[q.file].state = "cleaned"
  /\ q.at = "name" => table[q.file] # Nobody

RequestsOK == \A r \in Requests : RequestOK(r)

\* Nobody else uses a file while it is being opened.
Alone ==
  \A r, s \in Requests :
    req[r].kind = "create" /\ req[s].file = req[r].file => r = s

FilesOK ==
  \A f \in FileObjects :
    /\ file[f].state = "none" =>
         file[f] = NoFile /\ \A r \in Requests : req[r].file # f
    /\ file[f].state # "none" => file[f].opener # Nobody

-----------------------------------------------------------------------------
(* What the contexts tell.                                                 *)

\* The context of a file, in the table or in a request's hands, has the opener.
OpenerOK ==
  /\ \A f \in FileObjects :
       table[f] # Nobody /\ file[f].state # "none" /\ f \notin stale
         => context[table[f]].opener = file[f].opener
  /\ \A r \in Requests :
       req[r].holds # Nobody /\ req[r].file \notin stale
         => context[req[r].holds].opener = file[req[r].file].opener

\* A file whose opening was noticed is in the table until its clean-up.
KnownOK ==
  loaded =>
    /\ \A f \in FileObjects :
         file[f].state = "open" /\ f \notin unknown => table[f] # Nobody
    /\ \A r \in Requests :
         req[r].kind = "create" /\ req[r].at = "end" /\ req[r].success
           /\ req[r].file \notin unknown => table[req[r].file] # Nobody
    /\ \A r \in Requests :
         req[r].at = "info" /\ file[req[r].file].state = "open"
           /\ req[r].file \notin unknown => req[r].holds # Nobody

\* What ContextsSound says of a request at its end holds from the moment it
\* has read the context.
ToldOK ==
  \A r \in Requests :
    req[r].caught /\ req[r].at \in {"delete", "end"} /\ req[r].file \notin stale =>
      /\ req[r].client \in {Nobody, file[req[r].file].opener}
      /\ file[req[r].file].state = "open" /\ req[r].file \notin unknown
           => req[r].client # Nobody

UnloadOK ==
  ~loaded =>
    /\ \A r \in Requests : req[r].at = "none"
    /\ \A f \in FileObjects : table[f] = Nobody
    /\ \A x \in Places : context[x] = Freed

Inv ==
  /\ TypeOK /\ RefsOK /\ PlacesOK /\ OneEntry
  /\ RequestsOK /\ Alone /\ FilesOK
  /\ OpenerOK /\ KnownOK /\ ToldOK /\ UnloadOK

-----------------------------------------------------------------------------
(* Sizes.                                                                  *)

LEMMA OneMore ==
  ASSUME NEW S, NEW x, IsFiniteSet(S), x \notin S
  PROVE  Cardinality(S \cup {x}) = Cardinality(S) + 1
  BY FS_AddElement

LEMMA OneLess ==
  ASSUME NEW S, NEW x, IsFiniteSet(S), x \in S
  PROVE  Cardinality(S \ {x}) = Cardinality(S) - 1
  BY FS_RemoveElement

LEMMA Sizes ==
  ASSUME FileAssumption, NEW x
  PROVE  /\ IsFiniteSet(Entries(x)) /\ IsFiniteSet(Holders(x))
         /\ Cardinality(Entries(x)) \in Nat /\ Cardinality(Holders(x)) \in Nat
         /\ Cardinality(Entries(x)) = 0 <=> Entries(x) = {}
         /\ Cardinality(Holders(x)) = 0 <=> Holders(x) = {}
<1>1. Entries(x) \subseteq FileObjects /\ Holders(x) \subseteq Requests
  BY DEF Entries, Holders
<1>2. IsFiniteSet(Entries(x)) /\ IsFiniteSet(Holders(x))
  BY <1>1, FS_Subset DEF FileAssumption
<1> QED BY <1>2, FS_CardinalityType, FS_EmptySet

LEMMA SizesPrime ==
  ASSUME FileAssumption, NEW x
  PROVE  /\ IsFiniteSet(Entries(x)') /\ IsFiniteSet(Holders(x)')
         /\ Cardinality(Entries(x)') \in Nat /\ Cardinality(Holders(x)') \in Nat
         /\ Cardinality(Entries(x)') = 0 <=> Entries(x)' = {}
         /\ Cardinality(Holders(x)') = 0 <=> Holders(x)' = {}
<1>1. Entries(x)' \subseteq FileObjects /\ Holders(x)' \subseteq Requests
  BY DEF Entries, Holders
<1>2. IsFiniteSet(Entries(x)') /\ IsFiniteSet(Holders(x)')
  BY <1>1, FS_Subset DEF FileAssumption
<1> QED BY <1>2, FS_CardinalityType, FS_EmptySet

-----------------------------------------------------------------------------
(* The references.                                                         *)

References == TypeOK /\ RefsOK /\ PlacesOK /\ OneEntry

\* A context in the table or in a request's hands is alive.
LEMMA Alive ==
  ASSUME FileAssumption, References
  PROVE  /\ \A f \in FileObjects : table[f] # Nobody =>
              table[f] \in Places /\ context[table[f]].refs > 0
              /\ context[table[f]].opener # Nobody
         /\ \A r \in Requests : req[r].holds # Nobody =>
              req[r].holds \in Places /\ context[req[r].holds].refs > 0
              /\ context[req[r].holds].opener # Nobody
<1>1. ASSUME NEW x \in Places, Entries(x) # {} \/ Holders(x) # {}
      PROVE  context[x].refs > 0 /\ context[x].opener # Nobody
  <2>1. context[x].refs > 0
    BY <1>1, Sizes DEF References, RefsOK
  <2>2. context[x] # Freed
    BY <2>1 DEF Freed
  <2> QED BY <2>1, <2>2 DEF References, PlacesOK
<1>2. \A f \in FileObjects : table[f] # Nobody =>
        table[f] \in Places /\ Entries(table[f]) # {}
  BY DEF References, TypeOK, Entries
<1>3. \A r \in Requests : req[r].holds # Nobody =>
        req[r].holds \in Places /\ Holders(req[r].holds) # {}
  BY DEF References, TypeOK, Request, Holders
<1> QED BY <1>1, <1>2, <1>3

\* Nobody has a place that is free.
LEMMA Unused ==
  ASSUME FileAssumption, References, NEW x \in Places, context[x].refs = 0
  PROVE  Entries(x) = {} /\ Holders(x) = {}
  BY Sizes DEF References, RefsOK

\* Steps that leave the table, the counts and what the requests hold alone.
LEMMA ReferencesKept ==
  ASSUME References, TypeOK', UNCHANGED table,
         \A x \in Places : context'[x] = context[x]
                             \/ (context[x].refs > 0 /\ context'[x].refs = context[x].refs
                                 /\ context'[x].opener = context[x].opener),
         \A r \in Requests : req'[r].holds = req[r].holds
  PROVE  References'
<1>1. \A x \in Places : Entries(x)' = Entries(x) /\ Holders(x)' = Holders(x)
  BY DEF Entries, Holders
<1>2. \A x \in Places : context'[x].refs = context[x].refs
  OBVIOUS
<1>3. RefsOK'
  BY <1>1, <1>2 DEF References, RefsOK
<1>4. PlacesOK'
  <2>1. Freed' = Freed
    BY DEF Freed
  <2>2. \A x \in Places : context[x] = Freed \/ (context[x].refs > 0 /\ context[x].opener # Nobody)
    BY DEF References, PlacesOK
  <2>3. \A x \in Places : context'[x] = Freed \/ (context'[x].refs > 0 /\ context'[x].opener # Nobody)
    <3> TAKE x \in Places
    <3>1. CASE context'[x] = context[x]
      BY <2>2, <3>1
    <3>2. CASE context'[x] # context[x]
      <4>1. context[x].refs > 0 /\ context[x].opener # Nobody
        BY <2>2, <3>2 DEF Freed
      <4> QED BY <3>2, <4>1
    <3> QED BY <3>1, <3>2
  <2> QED BY <2>1, <2>3 DEF PlacesOK
<1>5. OneEntry'
  BY DEF References, OneEntry
<1> QED BY <1>3, <1>4, <1>5 DEF References

\* FoTableInsert makes an entry.
LEMMA ReferencesInsert ==
  ASSUME FileAssumption, References, TypeOK', NEW f \in FileObjects, NEW x \in Places,
         NEW client \in Clients, context[x] = Freed, table[f] = Nobody,
         table' = [table EXCEPT ![f] = x],
         context' = [context EXCEPT ![x] = [opener |-> client, refs |-> 1, named |-> FALSE]],
         \A r \in Requests : req'[r].holds = req[r].holds
  PROVE  References'
<1> USE DEF References, TypeOK
<1>1. x # Nobody /\ client # Nobody
  BY DEF FileAssumption
<1>2. Entries(x) = {} /\ Holders(x) = {}
  BY Unused DEF Freed
<1>3. \A y \in Places : Holders(y)' = Holders(y)
  BY DEF Holders
<1>4. \A y \in Places : y # x => Entries(y)' = Entries(y)
  BY <1>1 DEF Entries, FileAssumption
<1>5. Entries(x)' = {f}
  BY <1>2 DEF Entries
<1>6. \A y \in Places : y # x => context'[y] = context[y]
  OBVIOUS
<1>7. context'[x].refs = 1 /\ context'[x].opener = client
  OBVIOUS
<1>8. RefsOK'
  <2>1. Cardinality(Entries(x)') = 1 /\ Cardinality(Holders(x)') = 0
    BY <1>2, <1>3, <1>5, FS_Singleton, FS_EmptySet
  <2>2. ASSUME NEW y \in Places PROVE (context[y].refs = Cardinality(Entries(y)) + Cardinality(Holders(y)))'
    BY <1>3, <1>4, <1>6, <1>7, <2>1 DEF RefsOK
  <2> QED BY <2>2 DEF RefsOK
<1>9. PlacesOK'
  <2>1. ASSUME NEW y \in Places
        PROVE  context'[y] = Freed \/ (context'[y].refs > 0 /\ context'[y].opener # Nobody)
    <3>1. CASE y = x
      <4>1. context'[x].refs > 0 /\ context'[x].opener # Nobody
        BY <1>1, <1>7
      <4> QED BY <3>1, <4>1
    <3>2. CASE y # x
      BY <1>6, <3>2 DEF PlacesOK
    <3> QED BY <3>1, <3>2
  <2> QED BY <2>1 DEF PlacesOK, Freed
<1>10. OneEntry'
  BY <1>1, <1>2 DEF OneEntry, Entries
<1> QED BY <1>8, <1>9, <1>10

\* FoTableGet: the request r holds what the table has.
LEMMA ReferencesGet ==
  ASSUME FileAssumption, References, TypeOK', NEW r \in Requests, NEW x \in Places,
         UNCHANGED table, req[r].holds = Nobody, req'[r].holds = x, context[x].refs > 0,
         context' = [context EXCEPT ![x].refs = @ + 1],
         \A s \in Requests : s # r => req'[s].holds = req[s].holds
  PROVE  References'
<1> USE DEF References, TypeOK
<1>1. x # Nobody
  BY DEF FileAssumption
<1>2. \A y \in Places : Entries(y)' = Entries(y)
  BY DEF Entries
<1>3. \A y \in Places : y # x => Holders(y)' = Holders(y)
  BY DEF Holders, FileAssumption
<1>4. r \notin Holders(x) /\ Holders(x)' = Holders(x) \cup {r}
  BY <1>1 DEF Holders
<1>5. Cardinality(Holders(x)') = Cardinality(Holders(x)) + 1
  BY <1>4, Sizes, OneMore
<1>6. context[x].refs \in Int /\ context'[x].refs = context[x].refs + 1
        /\ context'[x].opener = context[x].opener
  BY DEF Context
<1>7. \A y \in Places : y # x => context'[y] = context[y]
  OBVIOUS
<1>8. RefsOK'
  <2>1. ASSUME NEW y \in Places PROVE (context[y].refs = Cardinality(Entries(y)) + Cardinality(Holders(y)))'
    BY <1>2, <1>3, <1>5, <1>6, <1>7, Sizes DEF RefsOK
  <2> QED BY <2>1 DEF RefsOK
<1>9. PlacesOK'
  <2>1. Freed' = Freed
    BY DEF Freed
  <2>2. context'[x].refs > 0 /\ context'[x].opener # Nobody
    BY <1>6 DEF PlacesOK, Freed
  <2>3. \A y \in Places : context'[y] = Freed \/ (context'[y].refs > 0 /\ context'[y].opener # Nobody)
    BY <1>7, <2>2 DEF PlacesOK
  <2> QED BY <2>1, <2>3 DEF PlacesOK
<1>10. OneEntry'
  BY DEF OneEntry
<1> QED BY <1>8, <1>9, <1>10

\* FoContextDereference, of an entry of the table or of what a request held.
LEMMA ReferencesDrop ==
  ASSUME FileAssumption, References, TypeOK', NEW x \in Places,
         context' = Dereference(context, x),
         \A y \in Places : y # x => Entries(y)' = Entries(y) /\ Holders(y)' = Holders(y),
         \/ Holders(x)' = Holders(x) /\ \E f \in Entries(x) : Entries(x)' = Entries(x) \ {f}
         \/ Entries(x)' = Entries(x) /\ \E r \in Holders(x) : Holders(x)' = Holders(x) \ {r},
         \A f \in FileObjects : table'[f] = table[f] \/ table'[f] = Nobody
  PROVE  References'
<1> USE DEF References, TypeOK
<1>1. Cardinality(Entries(x)') + Cardinality(Holders(x)')
        = Cardinality(Entries(x)) + Cardinality(Holders(x)) - 1
  BY Sizes, SizesPrime, OneLess
<1>2. context[x].refs = Cardinality(Entries(x)) + Cardinality(Holders(x))
  BY DEF RefsOK
<1>3. \A y \in Places : y # x => context'[y] = context[y]
  BY DEF Dereference
<1>4. context[x].refs \in Int
  BY DEF Context
<1>5. context[x] # Freed /\ context[x].opener # Nobody /\ context[x].refs > 0
  <2>1. context[x].refs > 0
    BY <1>1, <1>2, Sizes, SizesPrime
  <2> QED BY <2>1 DEF PlacesOK, Freed
<1>6. /\ context[x].refs = 1 => context'[x] = Freed
      /\ context[x].refs # 1 => context'[x].refs = context[x].refs - 1
                                /\ context'[x].opener = context[x].opener
  BY DEF Dereference, Context
<1>7. context'[x].refs = context[x].refs - 1
  BY <1>4, <1>6 DEF Freed
<1>8. RefsOK'
  <2>1. ASSUME NEW y \in Places PROVE (context[y].refs = Cardinality(Entries(y)) + Cardinality(Holders(y)))'
    BY <1>1, <1>2, <1>3, <1>7, Sizes, SizesPrime DEF RefsOK
  <2> QED BY <2>1 DEF RefsOK
<1>9. PlacesOK'
  <2>1. ASSUME NEW y \in Places
        PROVE  context'[y] = Freed \/ (context'[y].refs > 0 /\ context'[y].opener # Nobody)
    <3>1. CASE y = x
      <4>1. context'[x] = Freed \/ (context'[x].refs > 0 /\ context'[x].opener # Nobody)
        BY <1>4, <1>5, <1>6
      <4> QED BY <3>1, <4>1
    <3>2. CASE y # x
      BY <1>3, <3>2 DEF PlacesOK
    <3> QED BY <3>1, <3>2
  <2> QED BY <2>1 DEF PlacesOK, Freed
<1>10. OneEntry'
  BY DEF OneEntry
<1> QED BY <1>8, <1>9, <1>10

-----------------------------------------------------------------------------
(* What the operations on the table do.                                    *)

LEMMA InsertEffect ==
  ASSUME FileAssumption, References, TypeOK', NEW f \in FileObjects,
         NEW client \in Clients, FoTableInsert(f, client),
         \A r \in Requests : req'[r].holds = req[r].holds
  PROVE  /\ References'
         /\ \A g \in FileObjects : table'[g] = table[g]
              \/ (g = f /\ table[f] = Nobody /\ table'[f] # Nobody
                  /\ context'[table'[f]].opener = client)
         /\ \A x \in Places : context[x].refs > 0 => context'[x] = context[x]
         /\ table'[f] # Nobody \/ f \in unknown'
         /\ unknown' = unknown \/ unknown' = unknown \cup {f}
<1>1. CASE UNCHANGED <<table, context>>
  <2>1. References'
    BY <1>1, ReferencesKept
  <2>2. (table[f] # Nobody /\ UNCHANGED unknown) \/ unknown' = unknown \cup {f}
    BY <1>1, FileAssumption DEF FoTableInsert, FileAssumption, References, TypeOK
  <2> QED BY <1>1, <2>1, <2>2
<1>2. CASE \E x \in Places :
             /\ context[x] = Freed /\ table[f] = Nobody
             /\ table' = [table EXCEPT ![f] = x]
             /\ context' = [context EXCEPT ![x] = [opener |-> client, refs |-> 1, named |-> FALSE]]
             /\ UNCHANGED unknown
  <2>1. PICK x \in Places :
             /\ context[x] = Freed /\ table[f] = Nobody
             /\ table' = [table EXCEPT ![f] = x]
             /\ context' = [context EXCEPT ![x] = [opener |-> client, refs |-> 1, named |-> FALSE]]
             /\ UNCHANGED unknown
    BY <1>2
  <2>2. References'
    BY <2>1, ReferencesInsert
  <2>3. table'[f] = x /\ x # Nobody /\ context'[x].opener = client
    BY <2>1 DEF References, TypeOK, FileAssumption
  <2>4. \A g \in FileObjects : g # f => table'[g] = table[g]
    BY <2>1 DEF References, TypeOK
  <2>5. \A y \in Places : context[y].refs > 0 => context'[y] = context[y]
    <3>1. context[x].refs = 0
      BY <2>1 DEF Freed
    <3> QED BY <2>1, <3>1 DEF References, TypeOK
  <2> QED BY <2>1, <2>2, <2>3, <2>4, <2>5
<1> QED BY <1>1, <1>2 DEF FoTableInsert

\* A context that is still in use after a dereference keeps its opener.
LEMMA DropKeeps ==
  ASSUME FileAssumption, TypeOK, References', NEW x \in Places,
         context' = Dereference(context, x)
  PROVE  \A y \in Places :
           Entries(y)' # {} \/ Holders(y)' # {} => context'[y].opener = context[y].opener
<1> TAKE y \in Places
<1> HAVE Entries(y)' # {} \/ Holders(y)' # {}
<1>1. context'[y].refs # 0
  BY SizesPrime DEF References, RefsOK
<1>2. context'[y] # Freed
  BY <1>1 DEF Freed
<1>3. CASE x = y
  BY <1>2, <1>3 DEF TypeOK, Context, Dereference
<1>4. CASE x # y
  BY <1>4 DEF TypeOK, Dereference
<1> QED BY <1>3, <1>4

-----------------------------------------------------------------------------
(* The steps.                                                              *)

\* A request that takes no part in a step.
LEMMA RequestKept ==
  ASSUME NEW s \in Requests, RequestOK(s), req'[s] = req[s],
         req[s].file # Nobody =>
           /\ file'[req[s].file].opener = file[req[s].file].opener
           /\ \/ file'[req[s].file].state = file[req[s].file].state
              \/ req[s].kind = "request" /\ file'[req[s].file].state = "cleaned"
           /\ req[s].file \in unknown => req[s].file \in unknown'
           /\ req[s].at = "name" /\ table[req[s].file] # Nobody
                => table'[req[s].file] # Nobody
  PROVE  RequestOK(s)'
<1>1. CASE req[s].at = "none"
  BY <1>1 DEF RequestOK, NoRequest, Opening
<1>2. CASE req[s].at # "none"
  BY <1>2 DEF RequestOK, NoRequest, Opening
<1> QED BY <1>1, <1>2

LEMMA CreateStep ==
  ASSUME FileAssumption, Inv, NEW r \in Requests, NEW f \in FileObjects,
         NEW c \in Clients, NEW caught \in BOOLEAN, Create(r, f, c, caught)
  PROVE  Inv'
<1> USE DEF Inv, Create
<1>1. f # Nobody /\ c # Nobody
  BY DEF FileAssumption
<1>2. req[r] = NoRequest /\ file[f] = NoFile /\ \A s \in Requests : req[s].file # f
  BY DEF RequestsOK, RequestOK, FilesOK
<1>3. /\ req'[r].at = "original" /\ req'[r].kind = "create" /\ req'[r].file = f
      /\ req'[r].caught = caught /\ req'[r].holds = Nobody /\ ~req'[r].success
      /\ req'[r].client = IF caught THEN c ELSE Nobody
  BY DEF TypeOK, NoRequest
<1>4. \A s \in Requests : s # r => req'[s] = req[s]
  BY DEF TypeOK
<1>5. file'[f].opener = c /\ file'[f].state = "opening"
      /\ \A g \in FileObjects : g # f => file'[g] = file[g]
  BY DEF TypeOK
<1>6. TypeOK'
  BY DEF TypeOK, File, Request, NoRequest, Labels
<1>7. References'
  <2>1. \A s \in Requests : req'[s].holds = req[s].holds
    BY <1>2, <1>3, <1>4 DEF NoRequest
  <2> QED BY <1>6, <2>1, ReferencesKept DEF References
<1>8. RequestsOK' /\ Alone' /\ FilesOK'
  <2>1. RequestOK(r)'
    BY <1>1, <1>3, <1>5 DEF RequestOK, Opening
  <2>2. ASSUME NEW s \in Requests, s # r
        PROVE  RequestOK(s)'
    <3>1. RequestOK(s) /\ req'[s] = req[s] /\ req[s].file # f
      BY <1>2, <1>4, <2>2 DEF RequestsOK
    <3>2. req[s].file # Nobody => req[s].file \in FileObjects
      BY DEF TypeOK, Request
    <3>3. unknown \subseteq unknown' \cup {f}
      BY DEF TypeOK
    <3> QED BY <1>5, <3>1, <3>2, <3>3, RequestKept
  <2>3. Alone'
    BY <1>2, <1>3, <1>4 DEF Alone
  <2>4. FilesOK'
    BY <1>1, <1>2, <1>3, <1>4, <1>5 DEF FilesOK, NoFile
  <2> QED BY <2>1, <2>2, <2>3, <2>4 DEF RequestsOK
<1>9. OpenerOK'
  BY <1>2, <1>3, <1>4, <1>5 DEF OpenerOK, TypeOK, Request
<1>10. KnownOK'
  BY <1>2, <1>3, <1>4, <1>5 DEF KnownOK, TypeOK, Request
<1>11. ToldOK'
  BY <1>2, <1>3, <1>4, <1>5 DEF ToldOK, TypeOK, Request
<1>12. UnloadOK'
  BY DEF UnloadOK
<1> QED BY <1>6, <1>7, <1>8, <1>9, <1>10, <1>11, <1>12 DEF References

LEMMA OriginalStep ==
  ASSUME FileAssumption, Inv, NEW r \in Requests,
         NEW outcome \in {"success", "pending", "failed"}, NEW routine \in BOOLEAN,
         Original(r, outcome, routine)
  PROVE  Inv'
<1> USE DEF Inv
<1>1. /\ RequestOK(r) /\ req[r].file \in FileObjects
      /\ req[r].at = "original" /\ req[r].kind = "create"
  BY DEF Original, RequestsOK, RequestOK, TypeOK, Request
<1>2. /\ req'[r].kind = "create" /\ req'[r].file = req[r].file
      /\ req'[r].caught = req[r].caught /\ req'[r].holds = req[r].holds
      /\ req'[r].client = req[r].client 
      /\ outcome = "failed" => ~req'[r].success
      /\ outcome # "failed" => req'[r].success
      /\ req'[r].at \in {"late", "completion", "returned", "end"}
      /\ req'[r].at # "end" => req[r].caught /\ outcome # "failed"
      /\ req'[r].at = "end" =>
           outcome = "failed" \/ ~req[r].caught \/ (outcome = "pending" /\ ~routine)
  BY DEF Original, TypeOK, Request
<1>3. \A s \in Requests : s # r => req'[s] = req[s]
  BY DEF Original, TypeOK
<1>0. /\ UNCHANGED <<loaded, file, table, context, stale>>
      /\ unknown \subseteq unknown'
      /\ outcome = "pending" /\ ~routine => req[r].file \in unknown'
  BY DEF Original
<1>4. TypeOK'
  BY DEF Original, TypeOK, Request, Labels, Opening
<1>5. References'
  BY <1>0, <1>2, <1>3, <1>4, ReferencesKept DEF References
<1>6. RequestsOK' /\ Alone' /\ FilesOK'
  <2>1. RequestOK(r)'
    BY <1>0, <1>1, <1>2 DEF RequestOK, Opening
  <2>2. ASSUME NEW s \in Requests, s # r
        PROVE  RequestOK(s)'
    <3>1. RequestOK(s) /\ req'[s] = req[s]
      BY <1>3, <2>2 DEF RequestsOK
    <3> QED BY <1>0, <3>1, RequestKept
  <2>3. Alone'
    BY <1>0, <1>1, <1>2, <1>3 DEF Alone
  <2>4. FilesOK'
    BY <1>0, <1>2, <1>3 DEF FilesOK, NoFile
  <2> QED BY <2>1, <2>2, <2>3, <2>4 DEF RequestsOK
<1>7. OpenerOK'
  BY <1>0, <1>2, <1>3 DEF OpenerOK
<1>8. KnownOK'
  BY <1>0, <1>1, <1>2, <1>3 DEF KnownOK, RequestOK
<1>9. ToldOK'
  BY <1>0, <1>1, <1>2, <1>3 DEF ToldOK, RequestOK
<1>10. UnloadOK'
  BY <1>0, <1>1 DEF Original, RequestOK, Opening, UnloadOK
<1> QED BY <1>4, <1>5, <1>6, <1>7, <1>8, <1>9, <1>10 DEF References

\* FoTableInsert, by the completion routine or by the dispatch handler after
\* it, for an opening that was caught and successful.
LEMMA InsertedStep ==
  ASSUME FileAssumption, Inv, TypeOK', NEW r \in Requests,
         req[r].at \in {"late", "completion", "returned"},
         FoTableInsert(req[r].file, req[r].client),
         UNCHANGED <<loaded, file, stale>>,
         NEW l \in {"returned", "name", "end"},
         req' = [req EXCEPT ![r].at = l],
         l = "name" => table'[req[r].file] # Nobody
  PROVE  Inv'
<1> USE DEF Inv
<1> DEFINE f == req[r].file
<1>1. /\ RequestOK(r) /\ f \in FileObjects /\ req[r].kind = "create"
      /\ req[r].caught /\ req[r].success /\ req[r].at # "none" /\ req[r].holds = Nobody
  BY DEF RequestsOK, RequestOK, TypeOK, Request, Opening
<1>2. /\ file[f].state = "opening" /\ req[r].client = file[f].opener
      /\ req[r].client \in Clients
  BY <1>1 DEF RequestOK, FilesOK, TypeOK, Request, File
<1>3. /\ req'[r].at = l /\ req'[r].kind = "create" /\ req'[r].file = f
      /\ req'[r].caught /\ req'[r].success /\ req'[r].holds = Nobody
      /\ req'[r].client = req[r].client
  BY <1>1 DEF TypeOK, Request
<1>4. \A s \in Requests : s # r => req'[s] = req[s] /\ req[s].file # f
  BY <1>1 DEF TypeOK, Alone
<1>5. \A s \in Requests : req'[s].holds = req[s].holds
  BY <1>1, <1>3, <1>4
<1>6. /\ References'
      /\ \A g \in FileObjects : table'[g] = table[g]
           \/ (g = f /\ table[f] = Nobody /\ table'[f] # Nobody
               /\ context'[table'[f]].opener = req[r].client)
      /\ \A x \in Places : context[x].refs > 0 => context'[x] = context[x]
      /\ table'[f] # Nobody \/ f \in unknown'
      /\ unknown' = unknown \/ unknown' = unknown \cup {f}
  BY <1>1, <1>2, <1>5, InsertEffect DEF References
<1>7. RequestsOK' /\ Alone' /\ FilesOK'
  <2>1. RequestOK(r)'
    <3>1. unknown \subseteq unknown'
      BY <1>6
    <3> QED BY <1>1, <1>2, <1>3, <3>1 DEF RequestOK, Opening
  <2>2. ASSUME NEW s \in Requests, s # r
        PROVE  RequestOK(s)'
    <3>1. RequestOK(s) /\ req'[s] = req[s]
      BY <1>4, <2>2 DEF RequestsOK
    <3>2. req[s].file # Nobody => req[s].file \in FileObjects
      BY DEF TypeOK, Request
    <3> QED BY <1>6, <3>1, <3>2, RequestKept
  <2>3. Alone'
    BY <1>1, <1>3, <1>4 DEF Alone
  <2>4. FilesOK'
    BY <1>2, <1>3, <1>4 DEF FilesOK, NoFile
  <2> QED BY <2>1, <2>2, <2>3, <2>4 DEF RequestsOK
<1>8. /\ \A g \in FileObjects : table[g] # Nobody =>
           table[g] \in Places /\ context'[table[g]] = context[table[g]]
      /\ \A s \in Requests : req[s].holds # Nobody =>
           req[s].holds \in Places /\ context'[req[s].holds] = context[req[s].holds]
  BY <1>6, Alive DEF References
<1>9. OpenerOK'
  <2>1. ASSUME NEW g \in FileObjects, table'[g] # Nobody, file[g].state # "none",
               g \notin stale
        PROVE  context'[table'[g]].opener = file[g].opener
    BY <1>2, <1>6, <1>8, <2>1 DEF OpenerOK
  <2>2. ASSUME NEW s \in Requests, req'[s].holds # Nobody, req'[s].file \notin stale
        PROVE  context'[req'[s].holds].opener = file[req'[s].file].opener
    BY <1>3, <1>4, <1>8, <2>2 DEF OpenerOK
  <2> QED BY <2>1, <2>2 DEF OpenerOK
<1>10. KnownOK'
  <2> SUFFICES ASSUME loaded
               PROVE  KnownOK'
    BY DEF KnownOK
  <2>1. \A g \in FileObjects :
          file[g].state = "open" /\ g \notin unknown' => table'[g] # Nobody
    BY <1>2, <1>6 DEF KnownOK
  <2>2. ASSUME NEW s \in Requests, req'[s].kind = "create", req'[s].at = "end",
               req'[s].success, req'[s].file \notin unknown'
        PROVE  table'[req'[s].file] # Nobody
    <3>1. CASE s = r
      BY <1>3, <1>6, <2>2, <3>1
    <3>2. CASE s # r
      BY <1>4, <1>6, <2>2, <3>2 DEF KnownOK, RequestsOK, RequestOK, TypeOK, Request
    <3> QED BY <3>1, <3>2
  <2>3. ASSUME NEW s \in Requests, req'[s].at = "info", file[req'[s].file].state = "open",
               req'[s].file \notin unknown'
        PROVE  req'[s].holds # Nobody
    <3>1. s # r
      BY <1>3, <2>3
    <3> QED BY <1>4, <1>6, <2>3, <3>1 DEF KnownOK
  <2> QED BY <2>1, <2>2, <2>3 DEF KnownOK
<1>11. ToldOK'
  BY <1>2, <1>3, <1>4, <1>6 DEF ToldOK
<1>12. UnloadOK'
  BY <1>1 DEF UnloadOK
<1> QED BY <1>6, <1>7, <1>9, <1>10, <1>11, <1>12 DEF References

LEMMA InsertTypes ==
  ASSUME TypeOK, NEW f \in FileObjects, NEW client \in Clients, FoTableInsert(f, client)
  PROVE  /\ table' \in [FileObjects -> Places \cup {Nobody}]
         /\ context' \in [Places -> Context]
<1>1. CASE UNCHANGED <<table, context>>
  BY <1>1 DEF TypeOK
<1>2. ASSUME NEW x \in Places, table' = [table EXCEPT ![f] = x],
             context' = [context EXCEPT ![x] = [opener |-> client, refs |-> 1, named |-> FALSE]]
      PROVE  /\ table' \in [FileObjects -> Places \cup {Nobody}]
             /\ context' \in [Places -> Context]
  <2>1. [opener |-> client, refs |-> 1, named |-> FALSE] \in Context
    BY DEF Context
  <2> QED BY <1>2, <2>1 DEF TypeOK
<1> QED BY <1>1, <1>2 DEF FoTableInsert

LEMMA CompletionStep ==
  ASSUME FileAssumption, Inv, NEW r \in Requests, Completion(r)
  PROVE  Inv'
<1> USE DEF Inv, Completion
<1>1. req[r].client \in Clients \cup {Nobody}
  BY DEF TypeOK, Request
<1>2. req[r].file \in FileObjects /\ req[r].client \in Clients
  BY DEF RequestsOK, RequestOK, FilesOK, TypeOK, Request, File, Opening
<1>3. TypeOK'
  BY <1>2, InsertTypes DEF TypeOK, Request, Labels, Opening
<1> DEFINE l == IF req[r].at = "late" THEN "end" ELSE "returned"
<1>4. l \in {"returned", "name", "end"} /\ l # "name" /\ req' = [req EXCEPT ![r].at = l]
  OBVIOUS
<1> HIDE DEF l
<1> QED BY <1>3, <1>4, InsertedStep

LEMMA ReturnedStep ==
  ASSUME FileAssumption, Inv, NEW r \in Requests, Returned(r)
  PROVE  Inv'
<1> USE DEF Inv
<1> DEFINE f == req[r].file
<1>1. req[r].at = "returned" /\ f \in FileObjects /\ req[r].client \in Clients
  BY DEF Returned, RequestsOK, RequestOK, FilesOK, TypeOK, Request, File, Opening
\* Nothing is inserted when there is an entry, or it becomes unknown.
<1>2. FoTableInsert(f, req[r].client) /\ UNCHANGED <<loaded, file, stale>>
  BY DEF Returned, FoTableInsert
<1>3. PICK l \in {"returned", "name", "end"} :
        req' = [req EXCEPT ![r].at = l] /\ (l = "name" => table'[f] # table[f])
  BY DEF Returned
<1>4. l = "name" => table'[f] # Nobody
  <2>1. CASE UNCHANGED table
    BY <1>3, <2>1
  <2>2. ASSUME NEW x \in Places, table' = [table EXCEPT ![f] = x]
        PROVE  table'[f] # Nobody
    BY <1>1, <2>2 DEF TypeOK, FileAssumption
  <2> QED BY <1>2, <2>1, <2>2 DEF FoTableInsert
<1>5. TypeOK'
  BY <1>1, <1>2, <1>3, InsertTypes DEF TypeOK, Request, Labels, Opening
<1> QED BY <1>1, <1>2, <1>3, <1>4, <1>5, InsertedStep

LEMMA NameStep ==
  ASSUME FileAssumption, Inv, NEW r \in Requests, Name(r)
  PROVE  Inv'
<1> USE DEF Inv
<1> DEFINE f == req[r].file
           x == table[f]
<1>1. /\ RequestOK(r) /\ req[r].at = "name" /\ f \in FileObjects /\ req[r].kind = "create"
      /\ req[r].caught /\ req[r].success /\ req[r].holds = Nobody /\ x # Nobody
  BY DEF Name, RequestsOK, RequestOK, TypeOK, Request, Opening
<1>2. x \in Places /\ context[x].refs > 0
  BY <1>1, Alive DEF References
<1>3. file[f].state = "opening" /\ req[r].client = file[f].opener
  BY <1>1 DEF RequestOK
<1>4. /\ req'[r].at = "end" /\ req'[r].kind = "create" /\ req'[r].file = f
      /\ req'[r].caught /\ req'[r].success /\ req'[r].holds = Nobody
      /\ req'[r].client = req[r].client
  BY <1>1 DEF Name, TypeOK, Request
<1>5. \A s \in Requests : s # r => req'[s] = req[s]
  BY DEF Name, TypeOK
<1>6. UNCHANGED <<loaded, file, table, stale, unknown>>
  BY DEF Name
<1>7. /\ context'[x].refs = context[x].refs /\ context'[x].opener = context[x].opener
      /\ \A y \in Places : y # x => context'[y] = context[y]
  BY <1>2 DEF Name, TypeOK, Context
<1>8. TypeOK'
  <2>1. context' \in [Places -> Context]
    BY <1>2 DEF Name, TypeOK, Context
  <2> QED BY <1>6, <2>1 DEF Name, TypeOK, Request, Labels
<1>9. References'
  <2>1. \A s \in Requests : req'[s].holds = req[s].holds
    BY <1>1, <1>4, <1>5
  <2> QED BY <1>2, <1>6, <1>7, <1>8, <2>1, ReferencesKept DEF References
<1>10. RequestsOK' /\ Alone' /\ FilesOK'
  <2>1. RequestOK(r)'
    BY <1>1, <1>3, <1>4, <1>6 DEF RequestOK, Opening
  <2>2. ASSUME NEW s \in Requests, s # r
        PROVE  RequestOK(s)'
    <3>1. RequestOK(s) /\ req'[s] = req[s]
      BY <1>5, <2>2 DEF RequestsOK
    <3> QED BY <1>6, <3>1, RequestKept
  <2>3. Alone'
    BY <1>1, <1>4, <1>5 DEF Alone
  <2>4. FilesOK'
    BY <1>4, <1>5, <1>6 DEF FilesOK, NoFile
  <2> QED BY <2>1, <2>2, <2>3, <2>4 DEF RequestsOK
<1>11. OpenerOK'
  <2>1. \A y \in Places : context'[y].opener = context[y].opener
    BY <1>7
  <2> QED BY <1>1, <1>4, <1>5, <1>6, <2>1 DEF OpenerOK, TypeOK, Request
<1>12. KnownOK'
  BY <1>1, <1>4, <1>5, <1>6 DEF KnownOK
<1>13. ToldOK'
  BY <1>3, <1>4, <1>5, <1>6 DEF ToldOK
<1>14. UnloadOK'
  BY <1>1, <1>6 DEF UnloadOK
<1> QED BY <1>8, <1>9, <1>10, <1>11, <1>12, <1>13, <1>14 DEF References

LEMMA OpenedStep ==
  ASSUME FileAssumption, Inv, NEW r \in Requests, Opened(r)
  PROVE  Inv'
<1> USE DEF Inv
<1> DEFINE f == req[r].file
<1>1. /\ RequestOK(r) /\ req[r].at = "end" /\ f \in FileObjects /\ req[r].kind = "create"
      /\ req[r].holds = Nobody /\ file[f].state = "opening"
  BY DEF Opened, RequestsOK, RequestOK, TypeOK, Request
<1>2. req'[r] = NoRequest
  BY DEF Opened, TypeOK
<1>3. \A s \in Requests : s # r => req'[s] = req[s] /\ req[s].file # f
  BY <1>1 DEF Opened, TypeOK, Alone
<1>4. UNCHANGED <<loaded, table, context, stale, unknown>>
  BY DEF Opened
<1>5. /\ req[r].success => file'[f].opener = file[f].opener /\ file'[f].state = "open"
      /\ ~req[r].success => file'[f] = NoFile
      /\ \A g \in FileObjects : g # f => file'[g] = file[g]
  BY <1>1 DEF Opened, TypeOK, File
<1>6. TypeOK'
  BY <1>1 DEF Opened, TypeOK, File, NoFile, Request, NoRequest, Labels
<1>7. References'
  <2>1. \A s \in Requests : req'[s].holds = req[s].holds
    BY <1>1, <1>2, <1>3 DEF NoRequest
  <2> QED BY <1>4, <1>6, <2>1, ReferencesKept DEF References
<1>8. RequestsOK' /\ Alone' /\ FilesOK'
  <2>1. RequestOK(r)'
    BY <1>2 DEF RequestOK, NoRequest, Opening
  <2>2. ASSUME NEW s \in Requests, s # r
        PROVE  RequestOK(s)'
    <3>1. RequestOK(s) /\ req'[s] = req[s] /\ req[s].file # f
      BY <1>3, <2>2 DEF RequestsOK
    <3>2. req[s].file # Nobody => req[s].file \in FileObjects
      BY DEF TypeOK, Request
    <3> QED BY <1>4, <1>5, <3>1, <3>2, RequestKept
  <2>3. Alone'
    <3>1. \A s \in Requests : req[s].kind = "create" => req[s].file # Nobody
      BY DEF RequestsOK, RequestOK, NoRequest
    <3> QED BY <1>2, <1>3, <3>1 DEF Alone, NoRequest
  <2>4. ASSUME NEW g \in FileObjects
        PROVE  /\ file'[g].state = "none" =>
                    file'[g] = NoFile /\ \A s \in Requests : req'[s].file # g
               /\ file'[g].state # "none" => file'[g].opener # Nobody
    <3>1. g # Nobody
      BY DEF FileAssumption
    <3>2. CASE g = f
      BY <1>1, <1>2, <1>3, <1>5, <3>1, <3>2 DEF FilesOK, NoFile, NoRequest
    <3>3. CASE g # f
      BY <1>2, <1>3, <1>5, <3>1, <3>3 DEF FilesOK, NoRequest
    <3> QED BY <3>2, <3>3
  <2>5. NoFile' = NoFile
    BY DEF NoFile
  <2> QED BY <2>1, <2>2, <2>3, <2>4, <2>5 DEF RequestsOK, FilesOK
<1>9. OpenerOK'
  <2>1. ASSUME NEW g \in FileObjects, table[g] # Nobody, file'[g].state # "none",
               g \notin stale
        PROVE  context[table[g]].opener = file'[g].opener
    BY <1>1, <1>5, <2>1 DEF OpenerOK, NoFile
  <2>2. ASSUME NEW s \in Requests, req'[s].holds # Nobody, req'[s].file \notin stale
        PROVE  context[req'[s].holds].opener = file'[req'[s].file].opener
    <3>1. s # r /\ req[s].at = "info"
      BY <1>2, <1>3, <2>2 DEF NoRequest, RequestsOK, RequestOK
    <3>2. req[s].file \in FileObjects /\ req[s].file # f
      BY <1>3, <3>1 DEF RequestsOK, RequestOK, TypeOK, Request
    <3> QED BY <1>3, <1>5, <2>2, <3>1, <3>2 DEF OpenerOK
  <2> QED BY <1>4, <2>1, <2>2 DEF OpenerOK
<1>10. KnownOK'
  <2> SUFFICES ASSUME loaded
               PROVE  KnownOK'
    BY <1>4 DEF KnownOK
  <2>1. ASSUME NEW g \in FileObjects, file'[g].state = "open", g \notin unknown
        PROVE  table[g] # Nobody
    BY <1>1, <1>5, <2>1 DEF KnownOK, NoFile
  <2>2. ASSUME NEW s \in Requests, req'[s].kind = "create", req'[s].at = "end",
               req'[s].success, req'[s].file \notin unknown
        PROVE  table[req'[s].file] # Nobody
    BY <1>2, <1>3, <2>2 DEF KnownOK, NoRequest
  <2>3. ASSUME NEW s \in Requests, req'[s].at = "info", file'[req'[s].file].state = "open",
               req'[s].file \notin unknown
        PROVE  req'[s].holds # Nobody
    <3>1. s # r /\ req'[s] = req[s] /\ req[s].file # f
      BY <1>2, <1>3, <2>3 DEF NoRequest
    <3>2. req[s].file \in FileObjects
      BY <2>3, <3>1 DEF RequestsOK, RequestOK, TypeOK, Request
    <3> QED BY <1>5, <2>3, <3>1, <3>2 DEF KnownOK
  <2> QED BY <1>4, <2>1, <2>2, <2>3 DEF KnownOK
<1>11. ToldOK'
  <2> SUFFICES ASSUME NEW s \in Requests, req'[s].caught, req'[s].at \in {"delete", "end"},
                      req'[s].file \notin stale
               PROVE  /\ req'[s].client \in {Nobody, file'[req'[s].file].opener}
                      /\ file'[req'[s].file].state = "open" /\ req'[s].file \notin unknown
                           => req'[s].client # Nobody
    BY <1>4 DEF ToldOK
  <2>1. s # r /\ req'[s] = req[s] /\ req[s].file # f
    BY <1>2, <1>3 DEF NoRequest
  <2>2. req[s].file \in FileObjects
    BY <2>1 DEF RequestsOK, RequestOK, TypeOK, Request
  <2> QED BY <1>5, <2>1, <2>2 DEF ToldOK
<1>12. UnloadOK'
  BY <1>1, <1>4 DEF UnloadOK
<1> QED BY <1>6, <1>7, <1>8, <1>9, <1>10, <1>11, <1>12 DEF References

LEMMA ArriveStep ==
  ASSUME FileAssumption, Inv, NEW r \in Requests, NEW f \in FileObjects,
         NEW kind \in {"request", "cleanup"}, NEW caught \in BOOLEAN,
         Arrive(r, f, kind, caught)
  PROVE  Inv'
<1> USE DEF Inv
<1>1. req[r] = NoRequest /\ f # Nobody
  BY DEF Arrive, RequestsOK, RequestOK, FileAssumption
<1>2. /\ req'[r].kind = kind /\ req'[r].file = f /\ req'[r].caught = caught
      /\ req'[r].holds = Nobody /\ req'[r].client = Nobody
      /\ req'[r].at = IF caught THEN "get" ELSE "end"
  BY DEF Arrive, TypeOK, NoRequest
<1>3. \A s \in Requests : s # r => req'[s] = req[s]
  BY DEF Arrive, TypeOK
<1>4. UNCHANGED <<table, context, stale, unknown>> /\ loaded /\ loaded'
  BY DEF Arrive
<1>5. /\ \A g \in FileObjects : file'[g].opener = file[g].opener
      /\ \A g \in FileObjects : g # f => file'[g].state = file[g].state
      /\ file[f].state \in {"open", "cleaned"} /\ file'[f].state \in {"open", "cleaned"}
      /\ kind = "cleanup" => file'[f].state = "cleaned"
      /\ file'[f].state = "open" => file[f].state = "open"
      /\ file[f].state = "cleaned" => file'[f].state = "cleaned"
  BY DEF Arrive, TypeOK, File
<1>6. TypeOK'
  <2>1. file' \in [FileObjects -> File]
    BY DEF Arrive, TypeOK, File
  <2>2. req' \in [Requests -> Request]
    <3>1. [NoRequest EXCEPT !.kind = kind, !.file = f, !.caught = caught,
             !.at = IF caught THEN "get" ELSE "end"] \in Request
      BY DEF NoRequest, Request, Labels
    <3> QED BY <3>1 DEF Arrive, TypeOK
  <2> QED BY <1>4, <2>1, <2>2 DEF TypeOK
<1>7. References'
  <2>1. \A s \in Requests : req'[s].holds = req[s].holds
    BY <1>1, <1>2, <1>3 DEF NoRequest
  <2> QED BY <1>4, <1>6, <2>1, ReferencesKept DEF References
<1>8. RequestsOK' /\ Alone' /\ FilesOK'
  <2>1. RequestOK(r)'
    BY <1>1, <1>2, <1>5 DEF RequestOK, Opening
  <2>2. ASSUME NEW s \in Requests, s # r
        PROVE  RequestOK(s)'
    <3>1. RequestOK(s) /\ req'[s] = req[s]
      BY <1>3, <2>2 DEF RequestsOK
    <3>2. req[s].file # Nobody => req[s].file \in FileObjects
      BY DEF TypeOK, Request
    <3>3. req[s].file = f => req[s].kind = "request"
            \/ (req[s].kind = "cleanup" /\ file[f].state = "cleaned")
      BY <1>1, <1>5, <3>1, <3>2 DEF RequestOK, NoRequest, TypeOK, Request
    <3> QED BY <1>4, <1>5, <3>1, <3>2, <3>3, RequestKept
  <2>3. Alone'
    <3>1. \A s \in Requests : req[s].kind = "create" => req[s].file # f
      BY <1>1, <1>5 DEF RequestsOK, RequestOK
    <3> QED BY <1>2, <1>3, <3>1 DEF Alone
  <2>4. ASSUME NEW g \in FileObjects
        PROVE  /\ file'[g].state = "none" =>
                    file'[g] = NoFile /\ \A s \in Requests : req'[s].file # g
               /\ file'[g].state # "none" => file'[g].opener # Nobody
    <3>1. CASE g = f
      BY <1>5, <3>1 DEF FilesOK
    <3>2. CASE g # f
      <4>1. file'[g] = file[g]
        BY <3>2 DEF Arrive, TypeOK
      <4> QED BY <1>2, <1>3, <3>2, <4>1 DEF FilesOK, NoFile
    <3> QED BY <3>1, <3>2
  <2>5. NoFile' = NoFile
    BY DEF NoFile
  <2> QED BY <2>1, <2>2, <2>3, <2>4, <2>5 DEF RequestsOK, FilesOK
<1>9. \A s \in Requests : req[s].at # "none" => req[s].file \in FileObjects
  BY DEF RequestsOK, RequestOK, TypeOK, Request
<1>10. OpenerOK'
  <2>1. ASSUME NEW g \in FileObjects, table[g] # Nobody, file'[g].state # "none",
               g \notin stale
        PROVE  context[table[g]].opener = file'[g].opener
    BY <1>5, <2>1 DEF OpenerOK
  <2>2. ASSUME NEW s \in Requests, req'[s].holds # Nobody, req'[s].file \notin stale
        PROVE  context[req'[s].holds].opener = file'[req'[s].file].opener
    <3>1. s # r
      BY <1>2, <2>2
    <3>2. req[s].at = "info"
      BY <1>3, <2>2, <3>1 DEF RequestsOK, RequestOK
    <3> QED BY <1>3, <1>5, <1>9, <2>2, <3>1, <3>2 DEF OpenerOK
  <2> QED BY <1>4, <2>1, <2>2 DEF OpenerOK
<1>11. KnownOK'
  <2>1. ASSUME NEW g \in FileObjects, file'[g].state = "open", g \notin unknown
        PROVE  table[g] # Nobody
    BY <1>4, <1>5, <2>1 DEF KnownOK
  <2>2. ASSUME NEW s \in Requests, req'[s].kind = "create", req'[s].at = "end",
               req'[s].success, req'[s].file \notin unknown
        PROVE  table[req'[s].file] # Nobody
    BY <1>2, <1>3, <1>4, <2>2 DEF KnownOK
  <2>3. ASSUME NEW s \in Requests, req'[s].at = "info", file'[req'[s].file].state = "open",
               req'[s].file \notin unknown
        PROVE  req'[s].holds # Nobody
    <3>1. s # r /\ req'[s] = req[s]
      BY <1>2, <1>3, <2>3
    <3>2. req[s].file \in FileObjects
      BY <1>9, <2>3, <3>1
    <3> QED BY <1>4, <1>5, <2>3, <3>1, <3>2 DEF KnownOK
  <2> QED BY <1>4, <2>1, <2>2, <2>3 DEF KnownOK
<1>12. ToldOK'
  <2> SUFFICES ASSUME NEW s \in Requests, req'[s].caught, req'[s].at \in {"delete", "end"},
                      req'[s].file \notin stale
               PROVE  /\ req'[s].client \in {Nobody, file'[req'[s].file].opener}
                      /\ file'[req'[s].file].state = "open" /\ req'[s].file \notin unknown
                           => req'[s].client # Nobody
    BY <1>4 DEF ToldOK
  <2>1. s # r /\ req'[s] = req[s]
    BY <1>2, <1>3
  <2> QED BY <1>5, <1>9, <2>1 DEF ToldOK
<1>13. UnloadOK'
  BY <1>4 DEF UnloadOK
<1> QED BY <1>6, <1>7, <1>8, <1>10, <1>11, <1>12, <1>13 DEF References

LEMMA DoneStep ==
  ASSUME FileAssumption, Inv, NEW r \in Requests, Done(r)
  PROVE  Inv'
<1> USE DEF Inv
<1>1. RequestOK(r) /\ req[r].at = "end" /\ req[r].holds = Nobody
  BY DEF Done, RequestsOK, RequestOK
<1>2. req'[r] = NoRequest
  BY DEF Done, TypeOK
<1>3. \A s \in Requests : s # r => req'[s] = req[s]
  BY DEF Done, TypeOK
<1>4. UNCHANGED <<loaded, file, table, context, stale, unknown>>
  BY DEF Done
<1>5. TypeOK'
  BY DEF Done, TypeOK, Request, NoRequest, Labels
<1>6. References'
  <2>1. \A s \in Requests : req'[s].holds = req[s].holds
    BY <1>1, <1>2, <1>3 DEF NoRequest
  <2> QED BY <1>4, <1>5, <2>1, ReferencesKept DEF References
<1>7. RequestsOK' /\ Alone' /\ FilesOK'
  <2>1. RequestOK(r)'
    BY <1>2 DEF RequestOK, NoRequest, Opening
  <2>2. ASSUME NEW s \in Requests, s # r
        PROVE  RequestOK(s)'
    <3>1. RequestOK(s) /\ req'[s] = req[s]
      BY <1>3, <2>2 DEF RequestsOK
    <3> QED BY <1>4, <3>1, RequestKept
  <2>3. Alone'
    <3>1. \A s \in Requests : req[s].kind = "create" => req[s].file # Nobody
      BY DEF RequestsOK, RequestOK, NoRequest
    <3> QED BY <1>2, <1>3, <3>1 DEF Alone, NoRequest
  <2>4. FilesOK'
    <3>1. Nobody \notin FileObjects
      BY DEF FileAssumption
    <3> QED BY <1>2, <1>3, <1>4, <3>1 DEF FilesOK, NoFile, NoRequest
  <2> QED BY <2>1, <2>2, <2>3, <2>4 DEF RequestsOK
<1>8. OpenerOK'
  BY <1>2, <1>3, <1>4 DEF OpenerOK, NoRequest
<1>9. KnownOK'
  BY <1>2, <1>3, <1>4 DEF KnownOK, NoRequest
<1>10. ToldOK'
  BY <1>2, <1>3, <1>4 DEF ToldOK, NoRequest
<1>11. UnloadOK'
  BY <1>1, <1>4 DEF UnloadOK
<1> QED BY <1>5, <1>6, <1>7, <1>8, <1>9, <1>10, <1>11 DEF References

LEMMA CloseStep ==
  ASSUME FileAssumption, Inv, NEW f \in FileObjects, Close(f)
  PROVE  Inv'
<1> USE DEF Inv
<1>1. UNCHANGED <<loaded, table, context, req, stale, unknown>>
      /\ \A r \in Requests : req[r].file # f
  BY DEF Close
<1>2. file'[f] = NoFile /\ \A g \in FileObjects : g # f => file'[g] = file[g]
  BY DEF Close, TypeOK
<1>3. TypeOK'
  BY DEF Close, TypeOK, File, NoFile
<1>4. References'
  BY <1>1, <1>3, ReferencesKept DEF References
<1>5. RequestsOK' /\ Alone' /\ FilesOK'
  <2>1. ASSUME NEW s \in Requests
        PROVE  RequestOK(s)'
    <3>1. RequestOK(s) /\ req'[s] = req[s] /\ req[s].file # f
      BY <1>1 DEF RequestsOK
    <3>2. req[s].file # Nobody => req[s].file \in FileObjects
      BY DEF TypeOK, Request
    <3> QED BY <1>1, <1>2, <3>1, <3>2, RequestKept
  <2>2. Alone'
    BY <1>1 DEF Alone
  <2>3. FilesOK'
    <3>1. NoFile' = NoFile /\ NoFile.state = "none"
      BY DEF NoFile
    <3> QED BY <1>1, <1>2, <3>1 DEF FilesOK
  <2> QED BY <2>1, <2>2, <2>3 DEF RequestsOK
<1>6. \A s \in Requests : req[s].at # "none" => req[s].file \in FileObjects /\ req[s].file # f
  BY <1>1 DEF RequestsOK, RequestOK, TypeOK, Request
<1>7. OpenerOK'
  <2>1. \A s \in Requests : req[s].holds # Nobody => req[s].at # "none"
    BY DEF RequestsOK, RequestOK
  <2> QED BY <1>1, <1>2, <1>6, <2>1 DEF OpenerOK, NoFile
<1>8. KnownOK'
  BY <1>1, <1>2, <1>6 DEF KnownOK, NoFile
<1>9. ToldOK'
  BY <1>1, <1>2, <1>6 DEF ToldOK
<1>10. UnloadOK'
  BY <1>1 DEF UnloadOK
<1> QED BY <1>3, <1>4, <1>5, <1>7, <1>8, <1>9, <1>10 DEF References

LEMMA GetStep ==
  ASSUME FileAssumption, Inv, NEW r \in Requests, Get(r)
  PROVE  Inv'
<1> USE DEF Inv
<1> DEFINE f == req[r].file
           x == table[f]
<1>1. /\ RequestOK(r) /\ req[r].at = "get" /\ f \in FileObjects /\ req[r].kind # "create"
      /\ req[r].holds = Nobody
  BY DEF Get, RequestsOK, RequestOK, TypeOK, Request
<1>2. UNCHANGED <<loaded, file, table, stale, unknown>>
  BY DEF Get
<1>3. /\ req'[r].at = "info" /\ req'[r].kind = req[r].kind /\ req'[r].file = f
      /\ req'[r].caught = req[r].caught /\ req'[r].holds = x
      /\ req'[r].client = req[r].client
  BY <1>1 DEF Get, FoTableGet, TypeOK, Request
<1>4. \A s \in Requests : s # r => req'[s] = req[s]
  BY DEF Get, FoTableGet, TypeOK
<1>5. x # Nobody => x \in Places /\ context[x].refs > 0
  BY <1>1, Alive DEF References
<1>6. context' = IF x = Nobody THEN context ELSE [context EXCEPT ![x].refs = @ + 1]
  BY DEF Get, FoTableGet
<1>7. \A y \in Places : context'[y].opener = context[y].opener
  BY <1>5, <1>6 DEF TypeOK, Context
<1>8. TypeOK'
  <2>1. context' \in [Places -> Context]
    BY <1>5, <1>6 DEF TypeOK, Context
  <2>2. req' \in [Requests -> Request]
    BY <1>1 DEF Get, FoTableGet, TypeOK, Request, Labels
  <2> QED BY <1>2, <2>1, <2>2 DEF TypeOK
<1>9. References'
  <2>1. CASE x = Nobody
    <3>1. \A s \in Requests : req'[s].holds = req[s].holds
      BY <1>1, <1>3, <1>4, <2>1
    <3> QED BY <1>2, <1>6, <1>8, <2>1, <3>1, ReferencesKept DEF References
  <2>2. CASE x # Nobody
    <3>1. \A s \in Requests : s # r => req'[s].holds = req[s].holds
      BY <1>4
    <3> HIDE DEF x
    <3> QED BY <1>1, <1>2, <1>3, <1>5, <1>6, <1>8, <2>2, <3>1, ReferencesGet DEF References
  <2> QED BY <2>1, <2>2
<1>10. RequestsOK' /\ Alone' /\ FilesOK'
  <2>1. RequestOK(r)'
    BY <1>1, <1>2, <1>3 DEF RequestOK, Opening
  <2>2. ASSUME NEW s \in Requests, s # r
        PROVE  RequestOK(s)'
    <3>1. RequestOK(s) /\ req'[s] = req[s]
      BY <1>4, <2>2 DEF RequestsOK
    <3> QED BY <1>2, <3>1, RequestKept
  <2>3. Alone'
    BY <1>1, <1>3, <1>4 DEF Alone
  <2>4. FilesOK'
    BY <1>2, <1>3, <1>4 DEF FilesOK, NoFile
  <2> QED BY <2>1, <2>2, <2>3, <2>4 DEF RequestsOK
<1>11. OpenerOK'
  <2>1. file[f].state # "none"
    BY <1>1 DEF FilesOK
  <2>2. ASSUME NEW g \in FileObjects, table[g] # Nobody, file[g].state # "none",
               g \notin stale
        PROVE  context'[table[g]].opener = file[g].opener
    BY <1>7, <2>2 DEF OpenerOK, TypeOK
  <2>3. ASSUME NEW s \in Requests, req'[s].holds # Nobody, req'[s].file \notin stale
        PROVE  context'[req'[s].holds].opener = file[req'[s].file].opener
    <3>1. CASE s = r
      BY <1>1, <1>3, <2>1, <2>2, <2>3, <3>1
    <3>2. CASE s # r
      BY <1>4, <1>7, <2>3, <3>2 DEF OpenerOK, TypeOK, Request
    <3> QED BY <3>1, <3>2
  <2> QED BY <1>2, <2>2, <2>3 DEF OpenerOK
<1>12. KnownOK'
  <2>1. \A s \in Requests : s # r => req'[s] = req[s]
    BY <1>4
  <2> QED BY <1>1, <1>2, <1>3, <2>1 DEF KnownOK
<1>13. ToldOK'
  BY <1>2, <1>3, <1>4 DEF ToldOK
<1>14. UnloadOK'
  BY <1>1, <1>2 DEF UnloadOK
<1> QED BY <1>8, <1>9, <1>10, <1>11, <1>12, <1>13, <1>14 DEF References

LEMMA InfoStep ==
  ASSUME FileAssumption, Inv, NEW r \in Requests, Info(r)
  PROVE  Inv'
<1> USE DEF Inv
<1> DEFINE f == req[r].file
           x == req[r].holds
           client == IF x = Nobody THEN Nobody ELSE context[x].opener
           l == IF req[r].kind = "cleanup" THEN "delete" ELSE "end"
<1>1. /\ RequestOK(r) /\ req[r].at = "info" /\ f \in FileObjects /\ req[r].kind # "create"
      /\ loaded
  BY DEF Info, RequestsOK, RequestOK, TypeOK, Request, UnloadOK
<1>2. UNCHANGED <<loaded, file, table, stale, unknown>>
  BY DEF Info
<1>3. /\ req'[r].at = l /\ req'[r].kind = req[r].kind /\ req'[r].file = f
      /\ req'[r].caught = req[r].caught /\ req'[r].holds = Nobody
      /\ req'[r].client = client
  BY DEF Info, TypeOK, Request
<1>4. \A s \in Requests : s # r => req'[s] = req[s]
  BY DEF Info, TypeOK
<1>5. x # Nobody => x \in Places /\ context[x].opener # Nobody
  BY <1>1, Alive DEF References
<1>6. context' = IF x = Nobody THEN context ELSE Dereference(context, x)
  BY DEF Info
<1>7. TypeOK'
  <2>1. context' \in [Places -> Context]
    BY <1>5, <1>6 DEF TypeOK, Context, Dereference, Freed
  <2>2. client \in Clients \cup {Nobody}
    BY <1>5 DEF TypeOK, Context
  <2>3. req' \in [Requests -> Request]
    BY <2>2 DEF Info, TypeOK, Request, Labels
  <2> QED BY <1>2, <2>1, <2>3 DEF TypeOK
<1>8. References'
  <2>1. CASE x = Nobody
    <3>1. \A s \in Requests : req'[s].holds = req[s].holds
      BY <1>3, <1>4, <2>1
    <3> QED BY <1>2, <1>6, <1>7, <2>1, <3>1, ReferencesKept DEF References
  <2>2. CASE x # Nobody
    <3>0. PICK h \in Places : h = x
      BY <1>5, <2>2
    <3>1. \A y \in Places : Entries(y)' = Entries(y)
      BY <1>2 DEF Entries
    <3>2. \A y \in Places : y # h => Holders(y)' = Holders(y)
      BY <1>3, <1>4, <3>0 DEF Holders, FileAssumption
    <3>3. r \in Holders(h) /\ Holders(h)' = Holders(h) \ {r}
      <4>1. h # Nobody
        BY <2>2, <3>0
      <4> QED BY <1>3, <1>4, <3>0, <4>1 DEF Holders
    <3>4. \A g \in FileObjects : table'[g] = table[g]
      BY <1>2
    <3>5. References
      BY DEF References
    <3>6. context' = Dereference(context, h)
      BY <1>6, <2>2, <3>0
    <3> HIDE DEF x, Inv
    <3> QED BY <1>7, <3>1, <3>2, <3>3, <3>4, <3>5, <3>6, ReferencesDrop
  <2> QED BY <2>1, <2>2
<1>9. \A y \in Places : Entries(y)' # {} \/ Holders(y)' # {} =>
        context'[y].opener = context[y].opener
  <2>1. CASE x = Nobody
    BY <1>6, <2>1
  <2>2. CASE x # Nobody
    BY <1>5, <1>6, <1>8, <2>2, DropKeeps
  <2> QED BY <2>1, <2>2
<1>10. RequestsOK' /\ Alone' /\ FilesOK'
  <2>1. RequestOK(r)'
    BY <1>1, <1>2, <1>3 DEF RequestOK, Opening
  <2>2. ASSUME NEW s \in Requests, s # r
        PROVE  RequestOK(s)'
    <3>1. RequestOK(s) /\ req'[s] = req[s]
      BY <1>4, <2>2 DEF RequestsOK
    <3> QED BY <1>2, <3>1, RequestKept
  <2>3. Alone'
    BY <1>1, <1>3, <1>4 DEF Alone
  <2>4. FilesOK'
    BY <1>2, <1>3, <1>4 DEF FilesOK, NoFile
  <2> QED BY <2>1, <2>2, <2>3, <2>4 DEF RequestsOK
<1>11. OpenerOK'
  <2>1. ASSUME NEW g \in FileObjects, table[g] # Nobody, file[g].state # "none",
               g \notin stale
        PROVE  context'[table[g]].opener = file[g].opener
    <3>1. PICK y \in Places : y = table[g]
      BY <2>1 DEF TypeOK
    <3>2. g \in Entries(y)'
      BY <1>2, <3>1 DEF Entries
    <3> QED BY <1>9, <2>1, <3>1, <3>2 DEF OpenerOK
  <2>2. ASSUME NEW s \in Requests, req'[s].holds # Nobody, req'[s].file \notin stale
        PROVE  context'[req'[s].holds].opener = file[req'[s].file].opener
    <3>1. s # r /\ req'[s] = req[s]
      BY <1>3, <1>4, <2>2
    <3>2. PICK y \in Places : y = req[s].holds
      BY <2>2, <3>1 DEF TypeOK, Request
    <3>3. s \in Holders(y)'
      BY <3>1, <3>2 DEF Holders
    <3> QED BY <1>9, <2>2, <3>1, <3>2, <3>3 DEF OpenerOK
  <2> QED BY <1>2, <2>1, <2>2 DEF OpenerOK
<1>12. KnownOK'
  BY <1>1, <1>2, <1>3, <1>4 DEF KnownOK
<1>13. ToldOK'
  <2>1. x # Nobody /\ f \notin stale => client = file[f].opener
    BY <1>1, <1>5 DEF OpenerOK
  <2>2. file[f].state = "open" /\ f \notin unknown => client # Nobody
    BY <1>1, <1>5 DEF KnownOK
  <2> HIDE DEF client
  <2>3. x = Nobody => client = Nobody
    BY DEF client
  <2> QED BY <1>2, <1>3, <1>4, <2>1, <2>2, <2>3 DEF ToldOK
<1>14. UnloadOK'
  BY <1>1, <1>2 DEF UnloadOK
<1> QED BY <1>7, <1>8, <1>10, <1>11, <1>12, <1>13, <1>14 DEF References

LEMMA CleanupStep ==
  ASSUME FileAssumption, Inv, NEW r \in Requests, Cleanup(r)
  PROVE  Inv'
<1> USE DEF Inv
<1> DEFINE f == req[r].file
           x == table[f]
<1>1. /\ RequestOK(r) /\ req[r].at = "delete" /\ f \in FileObjects /\ req[r].kind = "cleanup"
      /\ req[r].holds = Nobody /\ loaded /\ file[f].state = "cleaned"
  BY DEF Cleanup, RequestsOK, RequestOK, TypeOK, Request, UnloadOK
<1>2. UNCHANGED <<loaded, file, stale, unknown>>
  BY DEF Cleanup
<1>3. /\ req'[r].at = "end" /\ req'[r].kind = req[r].kind /\ req'[r].file = f
      /\ req'[r].caught = req[r].caught /\ req'[r].holds = Nobody
      /\ req'[r].client = req[r].client
  BY <1>1 DEF Cleanup, TypeOK, Request
<1>4. \A s \in Requests : s # r => req'[s] = req[s]
  BY DEF Cleanup, TypeOK
<1>5. x # Nobody => x \in Places
  BY <1>1 DEF TypeOK
<1>6. context' = IF x = Nobody THEN context ELSE Dereference(context, x)
  BY DEF Cleanup, FoTableDelete
<1>7. table'[f] = Nobody /\ \A g \in FileObjects : g # f => table'[g] = table[g]
  BY <1>1 DEF Cleanup, FoTableDelete, TypeOK
<1>8. TypeOK'
  <2>1. context' \in [Places -> Context]
    BY <1>5, <1>6 DEF TypeOK, Context, Dereference, Freed
  <2>2. table' \in [FileObjects -> Places \cup {Nobody}]
    BY DEF Cleanup, FoTableDelete, TypeOK
  <2>3. req' \in [Requests -> Request]
    BY DEF Cleanup, TypeOK, Request, Labels
  <2> QED BY <1>2, <2>1, <2>2, <2>3 DEF TypeOK
<1>9. References'
  <2>1. CASE x = Nobody
    <3>1. \A s \in Requests : req'[s].holds = req[s].holds
      BY <1>1, <1>3, <1>4
    <3>2. UNCHANGED table
      BY <1>7, <1>8, <2>1 DEF TypeOK
    <3> QED BY <1>6, <1>8, <2>1, <3>1, <3>2, ReferencesKept DEF References
  <2>2. CASE x # Nobody
    <3>0. PICK h \in Places : h = x
      BY <1>5, <2>2
    <3>1. \A y \in Places : Holders(y)' = Holders(y)
      BY <1>1, <1>3, <1>4 DEF Holders
    <3>2. \A y \in Places : y # h => Entries(y)' = Entries(y)
      BY <1>7, <3>0 DEF Entries, FileAssumption
    <3>3. f \in Entries(h) /\ Entries(h)' = Entries(h) \ {f}
      <4>1. h # Nobody
        BY <2>2, <3>0
      <4> QED BY <1>1, <1>7, <3>0, <4>1 DEF Entries
    <3>4. \A g \in FileObjects : table'[g] = table[g] \/ table'[g] = Nobody
      BY <1>7
    <3>5. References
      BY DEF References
    <3>6. context' = Dereference(context, h)
      BY <1>6, <2>2, <3>0
    <3> HIDE DEF x, Inv
    <3> QED BY <1>8, <3>1, <3>2, <3>3, <3>4, <3>5, <3>6, ReferencesDrop
  <2> QED BY <2>1, <2>2
<1>10. \A y \in Places : Entries(y)' # {} \/ Holders(y)' # {} =>
        context'[y].opener = context[y].opener
  <2>1. CASE x = Nobody
    BY <1>6, <2>1
  <2>2. CASE x # Nobody
    BY <1>5, <1>6, <1>9, <2>2, DropKeeps
  <2> QED BY <2>1, <2>2
<1>11. RequestsOK' /\ Alone' /\ FilesOK'
  <2>1. RequestOK(r)'
    BY <1>1, <1>2, <1>3 DEF RequestOK, Opening
  <2>2. ASSUME NEW s \in Requests, s # r
        PROVE  RequestOK(s)'
    <3>1. RequestOK(s) /\ req'[s] = req[s]
      BY <1>4, <2>2 DEF RequestsOK
    <3>2. req[s].at = "name" => req[s].file \in FileObjects /\ req[s].file # f
      BY <1>1, <3>1 DEF RequestOK, Opening, TypeOK, Request
    <3> QED BY <1>2, <1>7, <3>1, <3>2, RequestKept
  <2>3. Alone'
    BY <1>1, <1>3, <1>4 DEF Alone
  <2>4. FilesOK'
    BY <1>2, <1>3, <1>4 DEF FilesOK, NoFile
  <2> QED BY <2>1, <2>2, <2>3, <2>4 DEF RequestsOK
<1>12. OpenerOK'
  <2>1. ASSUME NEW g \in FileObjects, table'[g] # Nobody, file[g].state # "none",
               g \notin stale
        PROVE  context'[table'[g]].opener = file[g].opener
    <3>1. table'[g] = table[g]
      BY <1>7, <2>1
    <3>2. PICK y \in Places : y = table[g]
      BY <2>1, <3>1 DEF TypeOK
    <3>3. g \in Entries(y)'
      BY <3>1, <3>2 DEF Entries
    <3> QED BY <1>10, <2>1, <3>1, <3>2, <3>3 DEF OpenerOK
  <2>2. ASSUME NEW s \in Requests, req'[s].holds # Nobody, req'[s].file \notin stale
        PROVE  context'[req'[s].holds].opener = file[req'[s].file].opener
    <3>1. s # r /\ req'[s] = req[s]
      BY <1>3, <1>4, <2>2
    <3>2. PICK y \in Places : y = req[s].holds
      BY <2>2, <3>1 DEF TypeOK, Request
    <3>3. s \in Holders(y)'
      BY <3>1, <3>2 DEF Holders
    <3> QED BY <1>10, <2>2, <3>1, <3>2, <3>3 DEF OpenerOK
  <2> QED BY <1>2, <2>1, <2>2 DEF OpenerOK
<1>13. KnownOK'
  <2>1. \A s \in Requests : req[s].kind = "create" =>
          req[s].file \in FileObjects /\ req[s].file # f
    BY <1>1 DEF RequestsOK, RequestOK, NoRequest, TypeOK, Request
  <2> QED BY <1>1, <1>2, <1>3, <1>4, <1>7, <2>1 DEF KnownOK
<1>14. ToldOK'
  <2> SUFFICES ASSUME NEW s \in Requests, req'[s].caught, req'[s].at \in {"delete", "end"},
                      req'[s].file \notin stale
               PROVE  /\ req'[s].client \in {Nobody, file[req'[s].file].opener}
                      /\ file[req'[s].file].state = "open" /\ req'[s].file \notin unknown
                           => req'[s].client # Nobody
    BY <1>2 DEF ToldOK
  <2>1. CASE s = r
    <3>1. req[r].caught /\ f \notin stale /\ req'[s].client = req[r].client /\ req'[s].file = f
      BY <1>3, <2>1
    <3>2. req[r].client \in {Nobody, file[f].opener}
      BY <1>1, <3>1 DEF ToldOK
    <3> QED BY <1>1, <3>1, <3>2
  <2>2. CASE s # r
    <3>1. req'[s] = req[s] /\ unknown' = unknown
      BY <1>2, <1>4, <2>2
    <3>2. req[s].caught /\ req[s].at \in {"delete", "end"} /\ req[s].file \notin stale
      BY <3>1
    <3>3. /\ req[s].client \in {Nobody, file[req[s].file].opener}
          /\ file[req[s].file].state = "open" /\ req[s].file \notin unknown
               => req[s].client # Nobody
      BY <3>2 DEF ToldOK
    <3> QED BY <3>1, <3>3
  <2> QED BY <2>1, <2>2
<1>15. UnloadOK'
  BY <1>1, <1>2 DEF UnloadOK
<1> QED BY <1>8, <1>9, <1>11, <1>12, <1>13, <1>14, <1>15 DEF References

LEMMA FinitStep ==
  ASSUME FileAssumption, Inv, Finit
  PROVE  Inv'
<1> USE DEF Inv
<1>1. /\ \A r \in Requests : req[r] = NoRequest
      /\ loaded' = FALSE /\ UNCHANGED <<file, req, stale, unknown>>
      /\ \A f \in FileObjects : table'[f] = Nobody
  BY DEF Finit, RequestsOK, RequestOK
<1>2. ASSUME NEW x \in Places
      PROVE  context'[x] = Freed /\ Entries(x)' = {} /\ Holders(x)' = {}
  <2>1. x # Nobody
    BY DEF FileAssumption
  <2>2. Holders(x) = {} /\ Holders(x)' = {} /\ Entries(x)' = {}
    BY <1>1, <2>1 DEF Holders, Entries, NoRequest
  <2>3. context[x].refs = Cardinality(Entries(x))
    BY <2>2, Sizes DEF RefsOK
  <2>4. CASE Entries(x) = {}
    <3>1. context[x].refs = 0
      BY <2>3, <2>4, Sizes
    <3>2. context'[x] = context[x]
      BY <2>4 DEF Finit, Entries
    <3> QED BY <2>2, <3>1, <3>2 DEF PlacesOK
  <2>5. CASE Entries(x) # {}
    <3>1. PICK f \in FileObjects : table[f] = x
      BY <2>5 DEF Entries
    <3>2. Entries(x) = {f}
      BY <2>1, <3>1 DEF Entries, OneEntry
    <3>3. context[x].refs = 1
      BY <2>3, <3>2, FS_Singleton
    <3>4. context'[x] = Dereference(context, x)[x]
      BY <3>1 DEF Finit
    <3> QED BY <2>2, <3>3, <3>4 DEF Dereference, TypeOK
  <2> QED BY <2>4, <2>5
<1>3. TypeOK'
  <2>1. table' \in [FileObjects -> Places \cup {Nobody}]
    BY DEF Finit
  <2>2. context' = [x \in Places |-> context'[x]]
    BY DEF Finit
  <2>3. context' \in [Places -> Context]
    <3>1. Freed \in Context
      BY DEF Freed, Context
    <3>2. \A x \in Places : context'[x] \in Context
      BY <1>2, <3>1
    <3> QED BY <2>2, <3>2
  <2> QED BY <1>1, <2>1, <2>3 DEF TypeOK
<1>4. RefsOK' /\ PlacesOK' /\ OneEntry'
  <2>1. \A x \in Places : context'[x].refs = 0
    BY <1>2 DEF Freed
  <2>2. RefsOK'
    <3>1. \A x \in Places : Cardinality(Entries(x)') = 0 /\ Cardinality(Holders(x)') = 0
      BY <1>2, FS_EmptySet
    <3>2. ASSUME NEW x \in Places
          PROVE  (context[x].refs = Cardinality(Entries(x)) + Cardinality(Holders(x)))'
      BY <2>1, <3>1
    <3> QED BY <3>2 DEF RefsOK
  <2>3. PlacesOK'
    BY <1>2 DEF PlacesOK, Freed
  <2> QED BY <1>1, <2>2, <2>3 DEF OneEntry
<1>5. RequestsOK' /\ Alone' /\ FilesOK'
  <2>1. ASSUME NEW r \in Requests
        PROVE  RequestOK(r)'
    <3>1. req'[r] = NoRequest
      BY <1>1
    <3> QED BY <3>1 DEF RequestOK, NoRequest, Opening
  <2>2. Alone'
    BY <1>1 DEF Alone, NoRequest
  <2>3. FilesOK'
    BY <1>1 DEF FilesOK, NoFile, NoRequest, FileAssumption
  <2> QED BY <2>1, <2>2, <2>3 DEF RequestsOK
<1>6. OpenerOK' /\ KnownOK' /\ ToldOK'
  BY <1>1 DEF OpenerOK, KnownOK, ToldOK, NoRequest
<1>7. UnloadOK'
  <2>1. Freed' = Freed
    BY DEF Freed
  <2> QED BY <1>1, <1>2, <2>1 DEF UnloadOK, NoRequest
<1> QED BY <1>3, <1>4, <1>5, <1>6, <1>7

-----------------------------------------------------------------------------
(* The theorem.                                                            *)

LEMMA InitInv ==
  ASSUME FileAssumption, Init
  PROVE  Inv
<1> USE DEF Init
<1>1. TypeOK
  BY DEF TypeOK, File, NoFile, Context, Freed, Request, NoRequest, Labels
<1>2. \A x \in Places : Entries(x) = {} /\ Holders(x) = {} /\ context[x].refs = 0
  BY DEF Entries, Holders, NoRequest, Freed, FileAssumption
<1>3. RefsOK
  BY <1>2, FS_EmptySet DEF RefsOK
<1>4. PlacesOK /\ OneEntry
  BY DEF PlacesOK, OneEntry
<1>5. RequestsOK /\ Alone
  BY DEF RequestsOK, RequestOK, Alone, NoRequest, Opening
<1>6. FilesOK
  BY DEF FilesOK, NoFile, NoRequest, FileAssumption
<1>7. OpenerOK /\ KnownOK /\ ToldOK
  BY DEF OpenerOK, KnownOK, ToldOK, NoRequest, NoFile
<1>8. UnloadOK
  BY DEF UnloadOK
<1> QED BY <1>1, <1>3, <1>4, <1>5, <1>6, <1>7, <1>8 DEF Inv

LEMMA StutterStep ==
  ASSUME FileAssumption, Inv, UNCHANGED vars
  PROVE  Inv'
<1> USE DEF Inv, vars
<1>1. \A x \in Places : Entries(x)' = Entries(x) /\ Holders(x)' = Holders(x)
  BY DEF Entries, Holders
<1>2. TypeOK' /\ RefsOK' /\ OneEntry'
  BY <1>1 DEF TypeOK, RefsOK, OneEntry
<1>3. PlacesOK' /\ UnloadOK'
  BY DEF PlacesOK, UnloadOK, Freed
<1>4. RequestsOK' /\ Alone' /\ FilesOK'
  <2>1. ASSUME NEW s \in Requests
        PROVE  RequestOK(s)'
    BY RequestKept DEF RequestsOK
  <2>2. Alone' /\ FilesOK'
    BY DEF Alone, FilesOK, NoFile
  <2> QED BY <2>1, <2>2 DEF RequestsOK
<1>5. OpenerOK' /\ KnownOK' /\ ToldOK'
  BY DEF OpenerOK, KnownOK, ToldOK
<1> QED BY <1>2, <1>3, <1>4, <1>5

LEMMA StepInv ==
  ASSUME FileAssumption, Inv, [Next]_vars
  PROVE  Inv'
<1>1. ASSUME NEW r \in Requests, Completion(r) PROVE Inv'
  BY <1>1, CompletionStep
<1>2. ASSUME NEW r \in Requests, Returned(r) PROVE Inv'
  BY <1>2, ReturnedStep
<1>3. ASSUME NEW r \in Requests, Name(r) PROVE Inv'
  BY <1>3, NameStep
<1>4. ASSUME NEW r \in Requests, Opened(r) PROVE Inv'
  BY <1>4, OpenedStep
<1>5. ASSUME NEW r \in Requests, Get(r) PROVE Inv'
  BY <1>5, GetStep
<1>6. ASSUME NEW r \in Requests, Info(r) PROVE Inv'
  BY <1>6, InfoStep
<1>7. ASSUME NEW r \in Requests, Cleanup(r) PROVE Inv'
  BY <1>7, CleanupStep
<1>8. ASSUME NEW r \in Requests, Done(r) PROVE Inv'
  BY <1>8, DoneStep
<1>9. ASSUME NEW r \in Requests, NEW o \in {"success", "pending", "failed"},
             NEW x \in BOOLEAN, Original(r, o, x)
      PROVE  Inv'
  BY <1>9, OriginalStep
<1>10. ASSUME NEW r \in Requests, NEW f \in FileObjects, NEW caught \in BOOLEAN,
              NEW c \in Clients, Create(r, f, c, caught)
       PROVE  Inv'
  BY <1>10, CreateStep
<1>11. ASSUME NEW r \in Requests, NEW f \in FileObjects, NEW caught \in BOOLEAN,
              NEW k \in {"request", "cleanup"}, Arrive(r, f, k, caught)
       PROVE  Inv'
  BY <1>11, ArriveStep
<1>12. ASSUME NEW f \in FileObjects, Close(f) PROVE Inv'
  BY <1>12, CloseStep
<1>13. CASE Finit
  BY <1>13, FinitStep
<1>14. CASE UNCHANGED vars
  BY <1>14, StutterStep
<1> QED BY <1>1, <1>2, <1>3, <1>4, <1>5, <1>6, <1>7, <1>8, <1>9, <1>10, <1>11, <1>12,
           <1>13, <1>14 DEF Next

LEMMA InvSound ==
  ASSUME Inv
  PROVE  ContextsSound
<1>1. \A x \in Places :
        context[x].refs = Cardinality({f \in FileObjects : table[f] = x})
                            + Cardinality({r \in Requests : req[r].holds = x})
  BY DEF Inv, RefsOK, Entries, Holders
<1>2. \A r \in Requests :
        req[r].caught /\ req[r].at = "end" /\ req[r].file \notin stale =>
          /\ req[r].client \in {Nobody, file[req[r].file].opener}
          /\ file[req[r].file].state = "open" /\ req[r].file \notin unknown
               => req[r].client # Nobody
  BY DEF Inv, ToldOK
<1>3. ~loaded => \A x \in Places : context[x] = Freed
  BY DEF Inv, UnloadOK
<1> QED BY <1>1, <1>2, <1>3 DEF ContextsSound

\* The references of the contexts are exactly those of _foTable and of the
\* handlers' requests; a request on a file tells of nobody but its opener and
\* knows him while the file is open; after FoTableFinit no context is left
\* (fo-context-table.c as hook-handlers.c uses it).
THEOREM FilesSound == ASSUME FileAssumption PROVE Spec => []ContextsSound
<1>1. Init => Inv
  BY InitInv
<1>2. Inv /\ [Next]_vars => Inv'
  BY StepInv
<1>3. Inv => ContextsSound
  BY InvSound
<1> QED BY <1>1, <1>2, <1>3, PTL DEF Spec
=============================================================================
