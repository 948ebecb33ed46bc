------------------------ MODULE SharedLibrary_proofs ------------------------
(* For any number of objects, files and instances: within the documented rule
   no object calls into a library that is gone, and every instance ends in the
   destroy function it was made with. *)
EXTENDS SharedLibrary, FiniteSetTheorems, TLAPS

\* The objects that hold a reference to a file.
Holders(f) == {o \in Objects : libraryHandle[o] /\ File[o] = f}

\* The linker counts the objects that hold a file, as each loads it once.
Counted ==
    \A f \in FileNames :
        /\ mapped[f] = Cardinality(Holders(f))
        /\ mapped[f] > 0 => epoch[f] < MaxEpoch

\* A cached function belongs to the mapping the object holds; a live instance to
\* its owner's, which knows the destroy function.
SymbolsInv ==
    /\ \A o \in Objects :
          /\ createHandle[o] # Null => libraryHandle[o] /\ createHandle[o] = epoch[File[o]]
          /\ destroyHandle[o] # Null => libraryHandle[o] /\ destroyHandle[o] = epoch[File[o]]
    /\ \A i \in Instances : fate[i] = "live" =>
          /\ owner[i] \in Objects /\ alive[owner[i]]
          /\ born[i] # Null /\ destroyHandle[owner[i]] = born[i]
    /\ PassedBack

\* Finitely many objects hold a file.
LEMMA HoldersFinite ==
    \A f : IsFiniteSet(Holders(f)) /\ Cardinality(Holders(f)) \in Nat
BY LibraryAssumption, FS_Subset, FS_CardinalityType DEF Holders

\* An object that holds its file is counted, and if it is the only one counted,
\* no other object holds it.
LEMMA LastHolder ==
    ASSUME NEW o \in Objects, libraryHandle[o]
    PROVE  /\ Cardinality(Holders(File[o])) > 0
           /\ Cardinality(Holders(File[o])) = 1 =>
                 \A p \in Objects : libraryHandle[p] /\ File[p] = File[o] => p = o
<1> DEFINE H == Holders(File[o])
<1>1. o \in H
      BY DEF Holders
<1>2. IsFiniteSet(H) /\ Cardinality(H) \in Nat
      BY HoldersFinite
<1>3. IsFiniteSet(H \ {o}) /\ Cardinality(H \ {o}) = Cardinality(H) - 1
      BY <1>1, <1>2, FS_RemoveElement
<1>4. Cardinality(H \ {o}) \in Nat
      BY <1>3, FS_CardinalityType
<1>5. Cardinality(H \ {o}) = 0 => H \ {o} = {}
      BY <1>3, FS_EmptySet
<1> HIDE DEF H
<1>6. Cardinality(H) > 0 /\ (Cardinality(H) = 1 => H \ {o} = {})
      BY <1>2, <1>3, <1>4, <1>5
<1> QED
    BY <1>6 DEF H, Holders
-----------------------------------------------------------------------------
\* Every call of the loader keeps the types.
LEMMA TypeStep == TypeOK /\ Counted /\ [Next]_vars => TypeOK'
<1> SUFFICES ASSUME TypeOK, Counted, [Next]_vars PROVE TypeOK'
    OBVIOUS
<1> USE LibraryAssumption DEF TypeOK, Epochs, Null, instances, handles
<1>1. ASSUME NEW o \in Objects, Load(o) PROVE TypeOK'
      BY <1>1 DEF Load
<1>2. ASSUME NEW o \in Objects, DoUnload(o)
      PROVE  /\ mapped' \in [FileNames -> Nat] /\ epoch' \in [FileNames -> Epochs]
             /\ libraryHandle' \in [Objects -> BOOLEAN]
             /\ createHandle' \in [Objects -> Epochs \cup {Null}]
             /\ destroyHandle' \in [Objects -> Epochs \cup {Null}]
  <2>1. ASSUME CloseFile(File[o]), libraryHandle[o]
        PROVE  mapped' \in [FileNames -> Nat] /\ epoch' \in [FileNames -> Epochs]
    <3>1. mapped[File[o]] > 0 /\ epoch[File[o]] < MaxEpoch
          BY <2>1, LastHolder DEF Counted
    <3> QED
        BY <2>1, <3>1 DEF CloseFile
  <2> QED
      BY <1>2, <2>1 DEF DoUnload
<1>3. ASSUME NEW o \in Objects, Unload(o) PROVE TypeOK'
      BY <1>2, <1>3 DEF Unload
<1>4. ASSUME NEW o \in Objects, Destroy(o) PROVE TypeOK'
      BY <1>2, <1>4 DEF Destroy
<1>5. ASSUME NEW o \in Objects, CreateFails(o) PROVE TypeOK'
      BY <1>5 DEF CreateFails, Resolve
<1>6. ASSUME NEW o \in Objects, NEW i \in Instances, Create(o, i) PROVE TypeOK'
  <2>1. /\ createHandle' \in [Objects -> Epochs \cup {Null}]
        /\ destroyHandle' \in [Objects -> Epochs \cup {Null}]
        BY <1>6 DEF Create, Resolve
  <2> QED
      BY <1>6, <2>1 DEF Create, Fates
<1>7. ASSUME NEW i \in Instances, Drop(i) PROVE TypeOK'
  <2>1. fate' \in [Instances -> Fates]
        BY <1>7 DEF Drop, Fates
  <2> QED
      BY <1>7, <2>1 DEF Drop
<1>8. CASE UNCHANGED vars
      BY <1>8 DEF vars
<1> QED
    BY <1>1, <1>3, <1>4, <1>5, <1>6, <1>7, <1>8 DEF Next

\* The types hold of objects that have loaded nothing.
LEMMA TypeInit == Init => TypeOK
<1> SUFFICES ASSUME Init PROVE TypeOK
    OBVIOUS
<1>1. /\ mapped \in [FileNames -> Nat] /\ epoch \in [FileNames -> Epochs]
      /\ alive \in [Objects -> BOOLEAN] /\ libraryHandle \in [Objects -> BOOLEAN]
      BY LibraryAssumption DEF Init, Epochs
<1> QED
    BY <1>1 DEF Init, TypeOK, Fates
-----------------------------------------------------------------------------
\* Nothing is mapped at the start.
LEMMA CountedInit == Init => Counted
<1> SUFFICES ASSUME Init, NEW f \in FileNames
             PROVE  mapped[f] = Cardinality(Holders(f)) /\ ~(mapped[f] > 0)
    BY DEF Counted
<1>1. Holders(f) = {}
      BY DEF Init, Holders
<1> QED
    BY <1>1, FS_EmptySet DEF Init

\* Every dlopen and dlclose changes count and holders together.
LEMMA CountedStep == TypeOK /\ Counted /\ [Next]_vars => Counted'
<1> SUFFICES ASSUME TypeOK, Counted, [Next]_vars PROVE Counted'
    OBVIOUS
<1> USE LibraryAssumption DEF TypeOK, Epochs, handles
<1>1. ASSUME UNCHANGED <<mapped, epoch, libraryHandle>> PROVE Counted'
      BY <1>1 DEF Counted, Holders
<1>2. ASSUME NEW o \in Objects, Load(o) PROVE Counted'
  <2>1. ASSUME NEW f \in FileNames
        PROVE  Holders(f)' = IF f = File[o] THEN Holders(f) \cup {o} ELSE Holders(f)
        BY <1>2 DEF Load, Holders
  <2>2. o \notin Holders(File[o])
        BY <1>2 DEF Load, Holders
  <2>3. Cardinality(Holders(File[o]) \cup {o}) = Cardinality(Holders(File[o])) + 1
        BY <2>2, HoldersFinite, FS_AddElement
  <2>4. \A f \in FileNames :
           mapped'[f] = IF f = File[o] THEN mapped[f] + 1 ELSE mapped[f]
        BY <1>2 DEF Load
  <2>5. \A f \in FileNames : mapped'[f] = Cardinality(Holders(f)')
        BY <2>1, <2>3, <2>4 DEF Counted
  <2>6. \A f \in FileNames : mapped'[f] > 0 => epoch'[f] < MaxEpoch
        BY <1>2, <2>4 DEF Counted, Load
  <2> QED
      BY <2>5, <2>6 DEF Counted
<1>3. ASSUME NEW o \in Objects, libraryHandle[o], CloseFile(File[o]),
             libraryHandle' = [libraryHandle EXCEPT ![o] = FALSE]
      PROVE  Counted'
  <2>1. ASSUME NEW f \in FileNames
        PROVE  Holders(f)' = IF f = File[o] THEN Holders(f) \ {o} ELSE Holders(f)
        BY <1>3 DEF Holders
  <2>2. o \in Holders(File[o])
        BY <1>3 DEF Holders
  <2>3. Cardinality(Holders(File[o]) \ {o}) = Cardinality(Holders(File[o])) - 1
        BY <2>2, HoldersFinite, FS_RemoveElement
  <2>4. \A f \in FileNames :
           mapped'[f] = IF f = File[o] THEN mapped[f] - 1 ELSE mapped[f]
        BY <1>3 DEF CloseFile
  <2>5. \A f \in FileNames : mapped'[f] = Cardinality(Holders(f)')
        BY <2>1, <2>3, <2>4 DEF Counted
  <2>6. \A f \in FileNames : mapped'[f] > 0 => epoch'[f] < MaxEpoch
        BY <1>3, <2>4 DEF Counted, CloseFile
  <2> QED
      BY <2>5, <2>6 DEF Counted
<1>4. ASSUME NEW o \in Objects, DoUnload(o) PROVE Counted'
      BY <1>1, <1>3, <1>4 DEF DoUnload
<1>5. ASSUME NEW o \in Objects, Unload(o) \/ Destroy(o) \/ CreateFails(o) PROVE Counted'
      BY <1>1, <1>4, <1>5 DEF Unload, Destroy, CreateFails
<1>6. ASSUME NEW i \in Instances, Drop(i) \/ (\E o \in Objects : Create(o, i)) PROVE Counted'
      BY <1>1, <1>6 DEF Drop, Create
<1>7. CASE UNCHANGED vars
      BY <1>1, <1>7 DEF vars
<1> QED
    BY <1>2, <1>5, <1>6, <1>7 DEF Next
-----------------------------------------------------------------------------
\* No functions are cached at the start.
LEMMA SymbolsInit == Init => SymbolsInv
BY DEF Init, SymbolsInv, PassedBack

\* Every call keeps cached functions and instances in the current mapping.
LEMMA SymbolsStep == TypeOK /\ Counted /\ SymbolsInv /\ [Next]_vars => SymbolsInv'
<1> SUFFICES ASSUME TypeOK, Counted, SymbolsInv, [Next]_vars PROVE SymbolsInv'
    OBVIOUS
<1> USE LibraryAssumption DEF TypeOK, SymbolsInv, PassedBack, Epochs, Null, instances, handles
<1>1. ASSUME NEW o \in Objects, Load(o) PROVE SymbolsInv'
      BY <1>1 DEF Load
\* Unloading for good, whether or not that unmaps the file.
<1>2. ASSUME NEW o \in Objects, LiveOf(o) = {}, UNCHANGED instances,
             DoUnload(o), \A p \in Objects : p # o => alive'[p] = alive[p]
      PROVE  SymbolsInv'
  <2>1. ASSUME NEW i \in Instances, fate[i] = "live" PROVE owner[i] # o
        BY <1>2, <2>1 DEF LiveOf
  <2>2. ASSUME libraryHandle[o], CloseFile(File[o]),
               NEW p \in Objects, p # o, libraryHandle[p]
        PROVE  epoch'[File[p]] = epoch[File[p]]
        BY <2>2, LastHolder DEF CloseFile, Counted
  <2>3. CASE libraryHandle[o] /\ CloseFile(File[o])
             /\ libraryHandle' = [libraryHandle EXCEPT ![o] = FALSE]
             /\ createHandle' = [createHandle EXCEPT ![o] = Null]
             /\ destroyHandle' = [destroyHandle EXCEPT ![o] = Null]
        BY <1>2, <2>1, <2>2, <2>3
  <2>4. CASE libraryHandle[o] /\ UNCHANGED <<mapped, epoch, libraryHandle>>
             /\ createHandle' = [createHandle EXCEPT ![o] = Null]
             /\ destroyHandle' = [destroyHandle EXCEPT ![o] = Null]
        BY <1>2, <2>1, <2>4
  <2>5. CASE UNCHANGED <<mapped, epoch, handles>>
        BY <1>2, <2>1, <2>5
  <2> QED
      BY <1>2, <2>3, <2>4, <2>5 DEF DoUnload
<1>3. ASSUME NEW o \in Objects, Unload(o) \/ Destroy(o) PROVE SymbolsInv'
      BY <1>2, <1>3 DEF Unload, Destroy
<1>4. ASSUME NEW o \in Objects, CreateFails(o) PROVE SymbolsInv'
      BY <1>4 DEF CreateFails, Resolve
<1>5. ASSUME NEW o \in Objects, NEW i \in Instances, Create(o, i) PROVE SymbolsInv'
      BY <1>5 DEF Create, Resolve
<1>6. ASSUME NEW i \in Instances, Drop(i) PROVE SymbolsInv'
  <2>1. fate' = [fate EXCEPT ![i] = "destroyed"]
        BY <1>6 DEF Drop
  <2> QED
      BY <1>6, <2>1 DEF Drop
<1>7. CASE UNCHANGED vars
      BY <1>7 DEF vars
<1> QED
    BY <1>1, <1>3, <1>4, <1>5, <1>6, <1>7 DEF Next

\* Count, cached functions and instances agree in every state.
THEOREM LibraryAlways == Spec => [](TypeOK /\ Counted /\ SymbolsInv)
BY TypeInit, TypeStep, CountedInit, CountedStep, SymbolsInit, SymbolsStep, PTL DEF Spec

\* The file of an object that has loaded it is mapped.
LEMMA LoadedIsMapped ==
    ASSUME TypeOK, Counted, NEW o \in Objects, libraryHandle[o]
    PROVE  mapped[File[o]] > 0
BY LastHolder, LibraryAssumption DEF TypeOK, Counted

\* Cached function pointers always point into the library as it is mapped now
\* (SharedLibrary.h, unload and create).
THEOREM NoStalePointers == Spec => []CachedSymbolsCurrent
<1>1. TypeOK /\ Counted /\ SymbolsInv => CachedSymbolsCurrent
      BY LoadedIsMapped DEF SymbolsInv, CachedSymbolsCurrent
<1> QED
    BY <1>1, LibraryAlways, PTL

\* The code of a live instance is mapped, as long as the user keeps the rule of
\* SharedLibrary.h:15 (create, unload and the destructor).
THEOREM CodeStays == Spec => []InstanceCodeMapped
<1>1. TypeOK /\ Counted /\ SymbolsInv => InstanceCodeMapped
      BY LoadedIsMapped DEF SymbolsInv, InstanceCodeMapped
<1> QED
    BY <1>1, LibraryAlways, PTL

\* The deleter never finds the object gone, its library gone or its destroy
\* function missing (SharedLibrary.h, the deleter in create).
THEOREM EveryInstancePassedBack == Spec => []PassedBack
<1>1. SymbolsInv => PassedBack
      BY DEF SymbolsInv
<1> QED
    BY <1>1, LibraryAlways, PTL
=============================================================================
