--------------------------- MODULE SharedLibrary ---------------------------
(* Plugins (example-11, SharedLibrary.h): objects that load a shared library,
   resolve its create and destroy functions on demand, and hand out instances
   whose deleter calls back into the object.  The user of the class keeps the
   documented rule: "Shared library must not be destroyed before all created
   instances are destroyed" (SharedLibrary.h:15), nor unloaded (:135). *)
EXTENDS Integers, FiniteSets

CONSTANTS
    Objects,        \* SharedLibrary objects
    FileNames,      \* library files
    File,           \* libraryFilename of each object
    Instances,      \* instances ever created
    NoObject,       \* owner of an instance not created yet
    MaxEpoch        \* bound: how often a file is mapped again

ASSUME LibraryAssumption ==
    /\ File \in [Objects -> FileNames]
    /\ IsFiniteSet(Objects)
    /\ NoObject \notin Objects
    /\ MaxEpoch \in Nat

VARIABLES
    mapped,         \* the linker's reference count of each file
    epoch,          \* how often the file has been unmapped
    alive,          \* the object has not been destroyed
    libraryHandle,  \* whether the object's handle is set
    createHandle,   \* epoch the function pointer points into, Null if null
    destroyHandle,
    owner,          \* the object an instance was created by
    born,           \* the epoch its code belongs to
    fate            \* of an instance

handles == <<libraryHandle, createHandle, destroyHandle>>
instances == <<owner, born, fate>>
vars == <<mapped, epoch, alive, handles, instances>>

Null == -1
Epochs == 0..MaxEpoch
Fates == {"none", "live", "destroyed", "leaked", "stray"}

Init ==
    /\ mapped = [f \in FileNames |-> 0]
    /\ epoch = [f \in FileNames |-> 0]
    /\ alive = [o \in Objects |-> TRUE]
    /\ libraryHandle = [o \in Objects |-> FALSE]
    /\ createHandle = [o \in Objects |-> Null]
    /\ destroyHandle = [o \in Objects |-> Null]
    /\ owner = [i \in Instances |-> NoObject]
    /\ born = [i \in Instances |-> Null]
    /\ fate = [i \in Instances |-> "none"]

LiveOf(o) == {i \in Instances : fate[i] = "live" /\ owner[i] = o}
-----------------------------------------------------------------------------
\* load() of an object that is not loaded; a failure leaves everything as is.
\* MaxEpoch bounds how often a file is mapped.
Load(o) ==
    /\ alive[o] /\ ~libraryHandle[o]
    /\ mapped[File[o]] = 0 => epoch[File[o]] < MaxEpoch
    /\ mapped' = [mapped EXCEPT ![File[o]] = @ + 1]
    /\ libraryHandle' = [libraryHandle EXCEPT ![o] = TRUE]
    /\ UNCHANGED <<epoch, alive, createHandle, destroyHandle, instances>>

\* dlclose: the last reference to a file unmaps it.
CloseFile(f) ==
    /\ mapped' = [mapped EXCEPT ![f] = @ - 1]
    /\ epoch' = [epoch EXCEPT ![f] = IF mapped[f] = 1 THEN @ + 1 ELSE @]

\* Mutant of DoUnload: the cached function pointers survive.
DoUnloadKeepsSymbols(o) ==
    /\ IF libraryHandle[o]
       THEN \/ /\ CloseFile(File[o])
               /\ libraryHandle' = [libraryHandle EXCEPT ![o] = FALSE]
            \/ UNCHANGED <<mapped, epoch, libraryHandle>>
       ELSE UNCHANGED <<mapped, epoch, libraryHandle>>
    /\ UNCHANGED <<createHandle, destroyHandle>>

\* The body of unload(), with dlclose succeeding or failing.
DoUnload(o) ==
    IF libraryHandle[o]
    THEN /\ \/ /\ CloseFile(File[o])
               /\ libraryHandle' = [libraryHandle EXCEPT ![o] = FALSE]
            \/ UNCHANGED <<mapped, epoch, libraryHandle>>
         /\ createHandle' = [createHandle EXCEPT ![o] = Null]
         /\ destroyHandle' = [destroyHandle EXCEPT ![o] = Null]
    ELSE UNCHANGED <<mapped, epoch, handles>>

\* unload() and ~SharedLibrary(), called as documented.
Unload(o) ==
    /\ alive[o] /\ LiveOf(o) = {}
    /\ DoUnload(o)
    /\ UNCHANGED <<alive, instances>>

Destroy(o) ==
    /\ alive[o] /\ LiveOf(o) = {}
    /\ DoUnload(o)
    /\ alive' = [alive EXCEPT ![o] = FALSE]
    /\ UNCHANGED instances

\* dlsym through the handle, unless the pointer is cached.
Resolve(cached, o) == IF cached # Null THEN cached ELSE epoch[File[o]]

\* create() finds no create function, or no destroy function.
CreateFails(o) ==
    /\ alive[o] /\ libraryHandle[o]
    /\ \/ createHandle[o] = Null /\ UNCHANGED createHandle
       \/ /\ destroyHandle[o] = Null
          /\ createHandle' =
                [createHandle EXCEPT ![o] = Resolve(createHandle[o], o)]
    /\ UNCHANGED <<mapped, epoch, alive, libraryHandle, destroyHandle, instances>>

\* Mutant of Create: an instance is made without a destroy function.
CreateWithoutDestroy(o, i) ==
    /\ alive[o] /\ libraryHandle[o] /\ fate[i] = "none"
    /\ createHandle' = [createHandle EXCEPT ![o] = Resolve(createHandle[o], o)]
    /\ owner' = [owner EXCEPT ![i] = o]
    /\ born' = [born EXCEPT ![i] = Resolve(createHandle[o], o)]
    /\ fate' = [fate EXCEPT ![i] = "live"]
    /\ UNCHANGED <<mapped, epoch, alive, libraryHandle, destroyHandle>>

\* create() resolves both functions; the create function itself may still
\* return null, and then there is no instance.
Create(o, i) ==
    /\ alive[o] /\ libraryHandle[o] /\ fate[i] = "none"
    /\ createHandle' = [createHandle EXCEPT ![o] = Resolve(createHandle[o], o)]
    /\ destroyHandle' = [destroyHandle EXCEPT ![o] = Resolve(destroyHandle[o], o)]
    /\ \/ /\ owner' = [owner EXCEPT ![i] = o]
          /\ born' = [born EXCEPT ![i] = createHandle'[o]]
          /\ fate' = [fate EXCEPT ![i] = "live"]
       \/ UNCHANGED instances
    /\ UNCHANGED <<mapped, epoch, alive, libraryHandle>>

\* The last InstancePtr goes away and its deleter runs with the object it
\* captured: nothing happens without a destroy function, and a destroy function
\* of another mapping, or an object that is gone, is undefined behaviour.
Drop(i) ==
    /\ fate[i] = "live"
    /\ LET o == owner[i] IN
       fate' = [fate EXCEPT ![i] =
                    CASE ~alive[o] -> "stray"
                      [] alive[o] /\ destroyHandle[o] = Null -> "leaked"
                      [] alive[o] /\ destroyHandle[o] = born[i]
                                  /\ epoch[File[o]] = born[i] -> "destroyed"
                      [] OTHER -> "stray"]
    /\ UNCHANGED <<mapped, epoch, alive, handles, owner, born>>

Next ==
    \/ \E o \in Objects :
          \/ Load(o) \/ Unload(o) \/ Destroy(o) \/ CreateFails(o)
          \/ \E i \in Instances : Create(o, i)
    \/ \E i \in Instances : Drop(i)

Spec == Init /\ [][Next]_vars
-----------------------------------------------------------------------------
\* The type of every variable.
TypeOK ==
    /\ mapped \in [FileNames -> Nat]
    /\ epoch \in [FileNames -> Epochs]
    /\ alive \in [Objects -> BOOLEAN]
    /\ libraryHandle \in [Objects -> BOOLEAN]
    /\ createHandle \in [Objects -> Epochs \cup {Null}]
    /\ destroyHandle \in [Objects -> Epochs \cup {Null}]
    /\ owner \in [Instances -> Objects \cup {NoObject}]
    /\ born \in [Instances -> Epochs \cup {Null}]
    /\ fate \in [Instances -> Fates]

\* The functions an object has cached are those of the file as it is mapped
\* now, across failed and repeated unloads and other objects of the same file.
CachedSymbolsCurrent ==
    \A o \in Objects :
        \A h \in {createHandle[o], destroyHandle[o]} :
            h # Null => libraryHandle[o] /\ mapped[File[o]] > 0
                        /\ h = epoch[File[o]]

\* The code of a live instance stays mapped until it is dropped, although the
\* instance holds no reference to the library.
InstanceCodeMapped ==
    \A i \in Instances : fate[i] = "live" =>
        /\ libraryHandle[owner[i]]
        /\ mapped[File[owner[i]]] > 0 /\ epoch[File[owner[i]]] = born[i]

\* "always pass it back to the module" (SharedLibrary.h:23): every instance ends
\* in the destroy function of its own library, and none is forgotten.
PassedBack == \A i \in Instances : fate[i] \notin {"leaked", "stray"}
=============================================================================
