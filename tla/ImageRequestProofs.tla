--------------------------- MODULE ImageRequestProofs ---------------------------
(* Proofs of the safety properties of ImageRequest, for every limit and every  *)
(* set of media types and bodies.                                              *)
EXTENDS ImageRequest, SequenceTheorems, TLAPS

-----------------------------------------------------------------------------
\* What the pipe and the schema compute is the same number: a base64 text of whole
\* groups of four, the last of them with pad "=", decodes to three bytes a group
\* less the padding.
LEMMA DecodedLengthsAgree ==
    ASSUME NEW chars \in Nat, NEW pad \in 0..2, (chars + pad) % 4 = 0
    PROVE  (chars * 3) \div 4 = ((chars + pad) \div 4) * 3 - pad
<1> DEFINE k == (chars + pad) \div 4
<1>1. k \in Nat /\ chars + pad = 4 * k
  BY Z3
<1>2. chars * 3 = 12 * k - 3 * pad
  BY <1>1, Z3
<1>3. (12 * k - 3 * pad) \div 4 = 3 * k - pad
  <2>1. CASE pad = 0
    BY <1>1, <2>1, Z3
  <2>2. CASE pad = 1
    BY <1>1, <2>2, Z3
  <2>3. CASE pad = 2
    BY <1>1, <2>3, Z3
  <2> QED
    BY <2>1, <2>2, <2>3
<1> QED
  BY <1>1, <1>2, <1>3

\* An image that passes the pipe and is a plain data URI passes the payload schema.
LEMMA PipeImpliesSchema ==
    ASSUME NEW u \in DataUri, pipeAccepts(u), uriMatches(u)
    PROVE  schemaAccepts(u)
<1>1. /\ u.chars \in Nat /\ u.pad \in 0..2 /\ u.chars > 0
      /\ (u.chars + u.pad) % 4 = 0
      /\ u.dirt = "none"
      /\ textLength(u) > 0
    BY DEF DataUri, pipeAccepts, isBase64, textLength
<1>2. (u.chars * 3) \div 4 <= MaxBytes
  BY DEF pipeAccepts, sizeOf
<1>3. (textLength(u) \div 4) * 3 - u.pad <= MaxBytes
  BY <1>1, <1>2, DecodedLengthsAgree DEF textLength
<1>4. u.mime \in Tokens
  BY DEF uriMatches
<1>5. textLength(u) # 0 /\ textLength(u) % 4 = 0
  BY <1>1 DEF textLength
<1> QED
  BY <1>1, <1>3, <1>4, <1>5 DEF schemaAccepts

\* The pipe examines every field.
LEMMA PipeOrderCovers ==
    Fields = {pipeOrder[i] : i \in 1..3} /\ \A i \in 1..3 : pipeOrder[i] \in Fields
  BY DEF Fields, pipeOrder

\* The payload sends every field.
LEMMA ImageOrderCovers ==
    ASSUME NEW i \in 1..3
    PROVE  /\ imageOrder[i] \in Fields
           /\ labels[i] \in {"Reference Task", "Template", "Student Submission"}
<1>1. i = 1 \/ i = 2 \/ i = 3
  OBVIOUS
<1>2. imageOrder[1] \in Fields /\ imageOrder[2] \in Fields /\ imageOrder[3] \in Fields
  BY DEF Fields, imageOrder
<1>3. /\ labels[1] = "Reference Task" /\ labels[2] = "Template"
      /\ labels[3] = "Student Submission"
  BY DEF labels
<1> QED
  BY <1>1, <1>2, <1>3

-----------------------------------------------------------------------------
LEMMA InitImageInv == Init => ImageInv
  BY BodiesAssumption DEF Init, ImageInv, TypeOK, None

LEMMA StepImageInv ==
    ASSUME ImageInv, [Next]_vars
    PROVE  ImageInv'
<1> USE DEF None, Ends
<1>1. CASE UNCHANGED vars
  BY <1>1 DEF vars, ImageInv, TypeOK
<1>2. CASE Validate
  <2>0. /\ body' = body /\ parts' = parts /\ pc \in 1..3 /\ outcome = None /\ parts = << >>
        /\ (pc' = pc + 1 /\ outcome' = outcome) \/ (pc' = 0 /\ outcome' = "BadRequest")
    BY <1>2 DEF Validate, Finish, ImageInv
  <2>1. TypeOK' /\ body' = body /\ parts' = parts /\ pc \in 1..3 /\ outcome = None /\ parts = << >>
    <3>1. pc' \in 0..5 /\ outcome' \in Ends \cup {None}
      BY <2>0
    <3> QED
      BY <2>0, <3>1 DEF ImageInv, TypeOK
  <2>2. CASE pipeAccepts(body[pipeOrder[pc]])
    <3>1. pc' = pc + 1 /\ outcome' = outcome
      BY <1>2, <2>2 DEF Validate
    <3>2. \A i \in 1..3 : pc' > i => pipeAccepts(body[pipeOrder[i]])
      <4> SUFFICES ASSUME NEW i \in 1..3, pc' > i PROVE pipeAccepts(body[pipeOrder[i]])
        OBVIOUS
      <4>1. pc > i \/ i = pc
        BY <2>1, <3>1
      <4> QED
        BY <4>1, <2>2 DEF ImageInv
    <3> QED
      BY <2>1, <3>1, <3>2 DEF ImageInv, pipeAccepts
  <2>3. CASE ~ pipeAccepts(body[pipeOrder[pc]])
    <3>1. pc' = 0 /\ outcome' = "BadRequest"
      BY <1>2, <2>3 DEF Validate, Finish
    <3>2. \E f \in Fields : ~ pipeAccepts(body[f])
      BY <2>1, <2>3, PipeOrderCovers
    <3> QED
      BY <2>1, <3>1, <3>2 DEF ImageInv
  <2> QED
    BY <2>2, <2>3
<1>3. CASE LoadTemplate
  <2>1. TypeOK' /\ body' = body /\ parts' = parts /\ pc = 4 /\ outcome = None /\ parts = << >>
    BY <1>3 DEF LoadTemplate, Finish, ImageInv, TypeOK
  <2>2. \A i \in 1..3 : pipeAccepts(body[pipeOrder[i]])
    BY <2>1 DEF ImageInv
  <2>3. (pc' = 5 /\ outcome' = outcome) \/ (pc' = 0 /\ outcome' = "TemplateError")
    BY <1>3 DEF LoadTemplate, Finish
  <2> QED
    BY <2>1, <2>2, <2>3 DEF ImageInv
<1>4. CASE Build
  <2>1. /\ pc = 5 /\ outcome = None /\ parts = << >> /\ body' = body /\ pc' = 0
        /\ body \in [Fields -> DataUri]
        /\ \A i \in 1..3 : pipeAccepts(body[pipeOrder[i]])
    BY <1>4 DEF Build, Finish, ImageInv, TypeOK
  <2>2. CASE \A f \in Fields : uriMatches(body[f])
    <3>1. /\ parts' = [i \in 1..3 |-> [label |-> labels[i], image |-> body[imageOrder[i]]]]
          /\ IF \A f \in Fields : schemaAccepts(body[f])
             THEN outcome' = "payload" ELSE outcome' = "ZodError"
      BY <1>4, <2>2 DEF Build, Finish
    <3> DEFINE Part == [label : {"Reference Task", "Template", "Student Submission"},
                        image : DataUri]
    <3>2. \A i \in 1..3 : [label |-> labels[i], image |-> body[imageOrder[i]]] \in Part
      BY <2>1, ImageOrderCovers
    <3>3. parts' \in [1..3 -> Part]
      BY <3>1, <3>2
    <3>4. parts' \in Seq(Part)
      <4>1. Seq(Part) = UNION {[1..n -> Part] : n \in Nat}
        BY SeqDef
      <4>2. 3 \in Nat
        OBVIOUS
      <4> HIDE DEF Part
      <4> QED
        BY <3>3, <4>1, <4>2, Zenon
    <3>5. TypeOK'
      <4>1. pc' \in 0..5 /\ outcome' \in Ends \cup {None} /\ body' \in [Fields -> DataUri]
        BY <2>1, <3>1
      <4> QED
        BY <3>4, <4>1 DEF TypeOK
    <3>6. \A f \in Fields : uriMatches(body'[f])
      BY <2>1, <2>2 DEF uriMatches
    <3>7. \A i \in 1..3 : pipeAccepts(body'[pipeOrder[i]])
      BY <2>1 DEF pipeAccepts
    <3>8. parts' = [i \in 1..3 |-> [label |-> labels[i], image |-> body'[imageOrder[i]]]]
      BY <2>1, <3>1
    <3>9. \/ outcome' = "payload"
          \/ outcome' = "ZodError" /\ \E f \in Fields : ~ schemaAccepts(body'[f])
      BY <2>1, <3>1
    <3> QED
      BY <2>1, <3>5, <3>6, <3>7, <3>8, <3>9 DEF ImageInv
  <2>3. CASE \E f \in Fields : ~ uriMatches(body[f])
    <3>1. parts' = parts /\ outcome' = "BadRequest"
      BY <1>4, <2>3 DEF Build, Finish
    <3> QED
      BY <2>1, <2>3, <3>1 DEF ImageInv, TypeOK
  <2> QED
    BY <2>2, <2>3
<1> QED
  BY <1>1, <1>2, <1>3, <1>4 DEF Next

\* The inductive invariant of an IMAGE request.
THEOREM ImageInvariant == Spec => []ImageInv
  BY InitImageInv, StepImageInv, PTL DEF Spec

-----------------------------------------------------------------------------
\* Whatever the limit is, an image the pipe lets pass never makes the payload schema
\* throw: no mistake in an image is answered with a server error.
THEOREM NoServerErrors == Spec => []NoImageIsAServerError
<1>1. ImageInv => NoImageIsAServerError
  <2> SUFFICES ASSUME ImageInv, outcome = "ZodError" PROVE FALSE
    BY DEF NoImageIsAServerError
  <2>1. PICK f \in Fields : ~ schemaAccepts(body[f])
    BY DEF ImageInv
  <2>2. pipeAccepts(body[f]) /\ uriMatches(body[f]) /\ body[f] \in DataUri
    BY PipeOrderCovers DEF ImageInv, TypeOK
  <2> QED
    BY <2>1, <2>2, PipeImpliesSchema
<1> QED
  BY <1>1, ImageInvariant, PTL

\* Each image of a payload is of an allowed type, no larger than the limit, and one
\* whole base64 text.
THEOREM OnlyValidated == Spec => []OnlyValidatedImagesLeave
<1>1. ImageInv => OnlyValidatedImagesLeave
  BY PipeOrderCovers DEF ImageInv, OnlyValidatedImagesLeave, pipeAccepts, isBase64
<1> QED
  BY <1>1, ImageInvariant, PTL

\* Each label stands before the image of its own field.
THEOREM LabelsFit == Spec => []LabelsNameTheirImages
<1>1. ImageInv => LabelsNameTheirImages
  <2> SUFFICES ASSUME ImageInv, outcome = "payload"
               PROVE  /\ Len(parts) = 3
                      /\ \A i \in 1..3 :
                            parts[i].image = body[ CASE parts[i].label = "Reference Task" -> "reference"
                                                     [] parts[i].label = "Template" -> "template"
                                                     [] OTHER -> "studentResponse" ]
    BY DEF LabelsNameTheirImages
  <2>1. parts = [i \in 1..3 |-> [label |-> labels[i], image |-> body[imageOrder[i]]]]
    BY DEF ImageInv
  <2>2. Len(parts) = 3
    BY <2>1
  <2>3. /\ parts[1].label = "Reference Task" /\ parts[1].image = body["reference"]
        /\ parts[2].label = "Template" /\ parts[2].image = body["template"]
        /\ parts[3].label = "Student Submission" /\ parts[3].image = body["studentResponse"]
    <3>1. \A i \in 1..3 : parts[i].label = labels[i] /\ parts[i].image = body[imageOrder[i]]
      BY <2>1
    <3>2. labels[1] = "Reference Task" /\ labels[2] = "Template" /\ labels[3] = "Student Submission"
      BY DEF labels
    <3>3. /\ imageOrder[1] = "reference" /\ imageOrder[2] = "template"
          /\ imageOrder[3] = "studentResponse"
      BY DEF imageOrder
    <3>4. parts[1].label = labels[1] /\ parts[1].image = body[imageOrder[1]]
      BY <3>1
    <3>5. parts[2].label = labels[2] /\ parts[2].image = body[imageOrder[2]]
      BY <3>1
    <3>6. parts[3].label = labels[3] /\ parts[3].image = body[imageOrder[3]]
      BY <3>1
    <3> QED
      BY <3>2, <3>3, <3>4, <3>5, <3>6
  <2>4. \A i \in 1..3 : i = 1 \/ i = 2 \/ i = 3
    OBVIOUS
  <2> QED
    BY <2>2, <2>3, <2>4
<1> QED
  BY <1>1, ImageInvariant, PTL

\* Three good images are never turned away.
THEOREM GoodOnesAreSent == Spec => []GoodImagesAreSent
<1>1. ImageInv => GoodImagesAreSent
  <2> SUFFICES ASSUME ImageInv,
                      \A f \in Fields : /\ pipeAccepts(body[f]) /\ body[f].mime \in Tokens
                                        /\ body[f].params = <<"base64">>
               PROVE  outcome \in {None, "payload", "TemplateError"}
    BY DEF GoodImagesAreSent
  <2>1. \A f \in Fields : uriMatches(body[f])
    BY DEF uriMatches, pipeAccepts, isBase64
  <2>2. \A f \in Fields : schemaAccepts(body[f])
    BY <2>1, PipeImpliesSchema DEF ImageInv, TypeOK
  <2> QED
    BY <2>1, <2>2 DEF ImageInv, TypeOK, Ends
<1> QED
  BY <1>1, ImageInvariant, PTL
================================================================================
