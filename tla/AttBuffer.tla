------------------------------ MODULE AttBuffer ------------------------------
(***************************************************************************)
(* struct AttValue of src/gatt/mod.rs as it is laid out: a fixed array of  *)
(* MaybeUninit bytes and a length.  as_slice reads the first len cells     *)
(* without a check, on the strength of a SAFETY comment; every operation   *)
(* that changes len has to keep those cells initialised, and every value   *)
(* seen through as_slice has to be the one AttValue's operators describe.  *)
(* A failed assertion or an index out of range panics: the value is then   *)
(* unwound with whatever it holds.                                         *)
(***************************************************************************)
EXTENDS AttValue

CONSTANT Uninit     \* content of a cell nothing was written to

ASSUME UninitIsNoByte == Uninit \notin Byte

VARIABLES buf,      \* the cells, indexed from 0
          len,      \* self.len
          val,      \* the sequence the value should be, by AttValue's operators
          panicked

cells == <<buf, len, val, panicked>>

Index == 0 .. MaxLen - 1
Slices == UNION {[1 .. n -> Byte] : n \in 0 .. MaxLen + 1}

\* AttValue::default()
BufferInit ==
  /\ buf = [i \in Index |-> Uninit]
  /\ len = 0
  /\ val = <<>>
  /\ panicked = FALSE

\* as_slice(): the first len cells.
AsSlice == [i \in 1 .. len |-> buf[i - 1]]

Panic == panicked' = TRUE /\ UNCHANGED <<buf, len, val>>

\* Bugs of the kind the module must exclude: the first new cell is skipped, or
\* only cells that were never written are filled.
FillSkipsFirst(i, lo, hi, b, old) == IF lo < i /\ i < hi THEN b ELSE old
FillFresh(i, lo, hi, b, old) ==
  IF lo <= i /\ i < hi /\ old = Uninit THEN b ELSE old

\* What resize leaves in cell i when the length goes from lo to hi: the cells
\* between the old and the new length are overwritten.
Fill(i, lo, hi, b, old) == IF lo <= i /\ i < hi THEN b ELSE old

\* resize(new_len, value), and new(len) which calls it on the default value;
\* a new length above the size of the buffer panics in the slice index.
Resize(n, b) ==
  /\ ~panicked
  /\ IF n > MaxLen
     THEN Panic
     ELSE /\ buf' = [i \in Index |-> Fill(i, len, n, b, buf[i])]
          /\ len' = n
          /\ val' = Resized(val, n, b)
          /\ UNCHANGED panicked

\* update(slice, offset): the assertion on the offset, then the slice range.
Update(slice, offset) ==
  /\ ~panicked
  /\ IF offset <= len /\ offset + Len(slice) <= MaxLen
     THEN /\ buf' = [i \in Index |->
                      IF offset <= i /\ i < offset + Len(slice)
                      THEN slice[i - offset + 1] ELSE buf[i]]
          /\ len' = offset + Len(slice)
          /\ val' = Updated(val, slice, offset)
          /\ UNCHANGED panicked
     ELSE Panic

Push(b) ==
  /\ ~panicked
  /\ IF len < MaxLen
     THEN /\ buf' = [buf EXCEPT ![len] = b]
          /\ len' = len + 1
          /\ val' = Append(val, b)
          /\ UNCHANGED panicked
     ELSE Panic

\* extend_from_slice: resize_with over the bytes of the slice.
Extend(slice) ==
  /\ ~panicked
  /\ IF len + Len(slice) > MaxLen
     THEN Panic
     ELSE /\ buf' = [i \in Index |->
                      IF len <= i /\ i < len + Len(slice)
                      THEN slice[i - len + 1] ELSE buf[i]]
          /\ len' = len + Len(slice)
          /\ val' = val \o slice
          /\ UNCHANGED panicked

\* A byte written through as_mut_slice (DerefMut), as socket.recv does.
Overwrite(i, b) ==
  /\ ~panicked
  /\ i < len
  /\ buf' = [buf EXCEPT ![i] = b]
  /\ val' = [val EXCEPT ![i + 1] = b]
  /\ UNCHANGED <<len, panicked>>

\* clone() and From<&[u8]>: a fresh buffer extended with as_slice().
CloneInto ==
  /\ ~panicked
  /\ buf' = [i \in Index |-> IF i < len THEN buf[i] ELSE Uninit]
  /\ UNCHANGED <<len, val, panicked>>

BufferNext ==
  \/ \E n \in 0 .. MaxLen + 1, b \in Byte : Resize(n, b)
  \/ \E s \in Slices, o \in 0 .. MaxLen + 1 : Update(s, o)
  \/ \E b \in Byte : Push(b)
  \/ \E s \in Slices : Extend(s)
  \/ \E i \in Index, b \in Byte : Overwrite(i, b)
  \/ CloneInto

BufferSpec == BufferInit /\ [][BufferNext]_cells

------------------------------------------------------------------------------
\* The SAFETY comment of as_slice and as_mut_slice (mod.rs:76, 80): the length
\* stays within the buffer and every cell below it was written.
InitializedToLen ==
  /\ len \in 0 .. MaxLen
  /\ \A i \in 0 .. len - 1 : buf[i] \in Byte

\* What a reader of the value sees is what the sequence of operations on it
\* should have produced: no stale byte of a longer, earlier value shows up
\* after the value was shortened and grown again.
SliceIsValue == AsSlice = val
==============================================================================
