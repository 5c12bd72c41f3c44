----------------------------- MODULE RecordLayout -----------------------------
(***************************************************************************)
(* How many bytes rmem's records take, against the buffers on the stack    *)
(* they are composed in (the record functions of src/rmem_hook.cpp over    *)
(* the helpers of src/rmem_utils.h), and how the list of modules is packed *)
(* (src/rmem_get_module_info.cpp).  A record is the sequence of the sizes  *)
(* of its fields.                                                          *)
(***************************************************************************)
EXTENDS Sums

CONSTANTS
  RMEM_STACK_TRACE_MAX,
  SmallBuffer,   \* uint8_t tmpBuffer[512]
  ModuleBuffer   \* uint8_t tmpBuffer[16 * 1024]

ASSUME LayoutAssumption ==
  /\ RMEM_STACK_TRACE_MAX \in Nat /\ SmallBuffer \in Nat /\ ModuleBuffer \in Nat
  /\ 21 <= SmallBuffer

Bytes64 == 8
Bytes32 == 4
Marker == 1
ThreadID == Bytes64   \* getThreadID
Clock == Bytes64
Hash == Bytes32       \* hashStr, and RMemTag::m_HashedName
PointerSizes == {4, 8}

OpBufferSize(ptr) == 96 + RMEM_STACK_TRACE_MAX * ptr

\* addStrToBuffer: the length, then the characters; a null string has none.
StrSize(len, charSize) == Bytes32 + len * charSize

\* addVarToBuffer and addStrToBuffer, field after field.
Composed(record) == Sums(record)[Len(record)]

\* The operations.  The trace behind them is complete (addStackTrace_new) or
\* only its hash; the tag and the hash are there in both.
Operation(ptr, pointers, sizes, aligned) ==
  <<Marker, Bytes64, ThreadID>> \o [i \in 1 .. pointers |-> ptr] \o <<Clock>>
    \o (IF aligned THEN <<1>> ELSE << >>) \o [i \in 1 .. sizes |-> Bytes32]
Operations(ptr) ==
  [alloc |-> Operation(ptr, 1, 2, FALSE), realloc |-> Operation(ptr, 2, 2, FALSE),
   allocAligned |-> Operation(ptr, 1, 2, TRUE), reallocAligned |-> Operation(ptr, 2, 2, TRUE),
   free |-> Operation(ptr, 1, 0, FALSE)]

addStackTrace_new(ptr, numFrames) == <<1, Hash, 2>> \o [i \in 1 .. numFrames |-> ptr]

\* The records with names of these lengths, which nothing tests; parent is -1
\* where there is no parent.
registerTag(name, parent) ==
  <<Marker, StrSize(name, 1), StrSize(IF parent < 0 THEN 0 ELSE parent, 1), Hash>>
    \o (IF parent < 0 THEN << >> ELSE <<Hash>>)
tagScope == <<Marker, Hash, ThreadID>>
registerMarker(name) == <<Marker, StrSize(name, 1), Hash, Bytes32>>
marker == <<Marker, Hash, ThreadID, Clock>>
registerAllocator(name) == <<Marker, StrSize(name, 1), Bytes64>>

\* The two that test the length of the name first, and write nothing when it is
\* too long.
TooLong(name, charSize, buffer) == name * charSize + 64 > buffer

registerThreadName(name) ==
  IF TooLong(name, 1, SmallBuffer) THEN << >> ELSE <<Marker, Bytes64, StrSize(name, 1)>>
registerModule(name, charSize) ==
  IF TooLong(name, charSize, ModuleBuffer) THEN << >>
  ELSE <<Marker, 1, StrSize(name, charSize), Bytes64, Bytes32, Clock>>
-------------------------------------------------------------------------------
\* The list of modules: the lengths in bytes of the names the system reports, to
\* the end or to an error, into a buffer of this size; written is what
\* getModuleInfo returns, listed how many modules.

ModuleEntry(name) == StrSize(name, 1) + 2 * Bytes64

BugNameOnly(buffPtr, name, bufferSize) == buffPtr + name + Bytes32 + Bytes64 <= bufferSize
moduleEntryFits(buffPtr, name, bufferSize) == buffPtr + ModuleEntry(name) <= bufferSize

AddModule(list, name) ==
  IF list.full \/ ~moduleEntryFits(list.written, name, list.bufferSize)
  THEN [list EXCEPT !.full = TRUE]
  ELSE [list EXCEPT !.written = @ + ModuleEntry(name), !.listed = @ + 1]

\* The character size comes first.
ModulesAdded(names, bufferSize) ==
  LET added[n \in 0 .. Len(names)] ==
        IF n = 0 THEN [written |-> 1, listed |-> 0, full |-> FALSE, bufferSize |-> bufferSize]
        ELSE AddModule(added[n - 1], names[n])
  IN  added

ListPlatforms == {"WINDOWS", "XBOX360", "ANDROID", "OTHER"}

\* On Windows an error of the snapshot or of the walk ends the list.  Xbox 360
\* returns 0 for every end but XBDM_ENDOFLIST, Android when the maps cannot be
\* opened; on Xbox 360 a full buffer leaves the loop with XBDM_NOERR.
getModuleInfo(platform, names, bufferSize, error) ==
  LET list == ModulesAdded(names, bufferSize)[Len(names)]
      none == [list EXCEPT !.written = 0, !.listed = 0]
  IN  CASE platform = "WINDOWS" -> list
        [] platform = "XBOX360" -> IF list.full \/ error THEN none ELSE list
        [] platform = "ANDROID" -> IF error THEN none ELSE list
        [] platform = "OTHER" -> none
===============================================================================
