------------------------------ MODULE PplCodec ------------------------------
(***************************************************************************)
(* The encoding of PPL packets (ppl/protocol.py): fields, and arrays and   *)
(* packets that nest up to five deep, as those of packetDefinitions.py do. *)
(***************************************************************************)
EXTENDS PplField

L1 == INSTANCE PplCompositeProof WITH
        IsInner <- IsField, InnerValid <- ValidField,
        InnerErrors <- FieldErrors, PackInner <- PackField, UnpackInner <- UnpackField,
        PlainInner <- PlainField, FilledInner <- FilledField, HoldsTextInner <- HoldsTextField

L2 == INSTANCE PplCompositeProof WITH
        IsInner <- L1!IsType, InnerValid <- L1!Valid,
        InnerErrors <- L1!PackErrors, PackInner <- L1!Pack, UnpackInner <- L1!Unpack,
        PlainInner <- L1!Plain, FilledInner <- L1!Filled, HoldsTextInner <- L1!HoldsText

L3 == INSTANCE PplCompositeProof WITH
        IsInner <- L2!IsType, InnerValid <- L2!Valid,
        InnerErrors <- L2!PackErrors, PackInner <- L2!Pack, UnpackInner <- L2!Unpack,
        PlainInner <- L2!Plain, FilledInner <- L2!Filled, HoldsTextInner <- L2!HoldsText

L4 == INSTANCE PplCompositeProof WITH
        IsInner <- L3!IsType, InnerValid <- L3!Valid,
        InnerErrors <- L3!PackErrors, PackInner <- L3!Pack, UnpackInner <- L3!Unpack,
        PlainInner <- L3!Plain, FilledInner <- L3!Filled, HoldsTextInner <- L3!HoldsText

L5 == INSTANCE PplCompositeProof WITH
        IsInner <- L4!IsType, InnerValid <- L4!Valid,
        InnerErrors <- L4!PackErrors, PackInner <- L4!Pack, UnpackInner <- L4!Unpack,
        PlainInner <- L4!Plain, FilledInner <- L4!Filled, HoldsTextInner <- L4!HoldsText

IsType(t) == L5!IsType(t)
Valid(t, v) == L5!Valid(t, v)
PackErrors(t, v) == L5!PackErrors(t, v)
Pack(t, v) == L5!Pack(t, v)
Unpack(t, d, at) == L5!Unpack(t, d, at)
Plain(t, v) == L5!Plain(t, v)
Filled(t, v) == L5!Filled(t, v)
HoldsText(t) == L5!HoldsText(t)

\* A packet made of keyword arguments.  None of the callers that build one leaves out an
\* array or a packet.
Content(t, kwargs) ==
  [i \in DOMAIN t.fields |-> IF FieldName(t, i) \in DOMAIN kwargs
                               THEN kwargs[FieldName(t, i)]
                               ELSE DefaultField(FieldType(t, i))]
=============================================================================
