------------------------------ MODULE ImageRequest ------------------------------
(***************************************************************************)
(* An IMAGE assessment from its body to its payload.  The same data URIs   *)
(* are examined three times by three pieces of code that must agree: the   *)
(* ImageValidationPipe, the regular expression of ImagePrompt, and the     *)
(* schema of the multi-part payload.  Only the first two answer with 400;  *)
(* what the schema rejects surfaces as a ZodError, a server error.         *)
(*                                                                         *)
(* A data URI is a record of what the three look at: how it begins, its    *)
(* media type, the parameters between the first ";" and the comma, whether *)
(* there is a comma, and of the payload the number of base64 characters,   *)
(* the number of "=" after them, and any character that is neither.        *)
(***************************************************************************)
EXTENDS Integers, Sequences

CONSTANTS MediaTypes,   \* the media types that occur
          Allowed,      \* ALLOWED_IMAGE_MIME_TYPES
          Tokens,       \* those that match /^image\/[a-zA-Z0-9.+-]+$/
          MaxBytes,     \* MAX_IMAGE_SIZE_BYTES
          StringLimit,  \* the longest string the pipe looks into
          HeaderLength, \* the length of a data URI up to its comma
          Bodies        \* the bodies that occur: a data URI per field

Fields == {"reference", "template", "studentResponse"}
Dirts == {"none", "junk", "newline"}

DataUri ==
    [ prefix : {"other", "data:", "data:image/"}, mime : MediaTypes,
      params : Seq({"base64", "other"}), comma : BOOLEAN,
      chars : Nat, pad : Nat, dirt : Dirts ]

ASSUME LimitsAssumption == MaxBytes \in Nat /\ StringLimit \in Nat /\ HeaderLength \in Nat
ASSUME TypesAssumption == Allowed \subseteq MediaTypes /\ Tokens \subseteq MediaTypes
ASSUME BodiesAssumption == Bodies \subseteq [Fields -> DataUri]

VARIABLES body,     \* the validated dto's three fields
          pc,       \* the next thing the request does
          parts,    \* the image parts of the payload, each with its label
          outcome   \* how the request ended

vars == <<body, pc, parts, outcome>>

None == "none"
Ends == {"payload", "BadRequest", "ZodError", "TemplateError"}

-----------------------------------------------------------------------------
(* Variants with plausible bugs, which no specification uses.               *)

\* The template is not validated.
pipeOrderShort == <<"reference", "studentResponse", "reference">>

\* The images come in the order in which the fields are validated.
imageOrderOfPipe == <<"reference", "studentResponse", "template">>

\* The schema takes the limit to be exclusive.
schemaAcceptsBelow(u) ==
    /\ u.mime \in Tokens
    /\ u.dirt = "none" /\ u.chars > 0 /\ u.pad <= 2
    /\ (u.chars + u.pad) % 4 = 0
    /\ ((u.chars + u.pad) \div 4) * 3 - u.pad < MaxBytes

-----------------------------------------------------------------------------
textLength(u) == u.chars + u.pad

\* validator.isBase64: external, the standard alphabet with its padding.
isBase64(u) ==
    /\ u.dirt = "none"
    /\ u.chars > 0 /\ u.pad <= 2
    /\ textLength(u) % 4 = 0

\* Buffer.from(data, "base64").length: external, six bits a character.
sizeOf(u) == (u.chars * 3) \div 4

\* A variant with a bug: whether the text is base64 is left to the schema.
pipeAcceptsAnyText(u) ==
    /\ HeaderLength + textLength(u) <= StringLimit
    /\ u.prefix = "data:image/"
    /\ u.comma
    /\ u.params # << >> /\ u.params[1] = "base64"
    /\ u.mime \in Allowed
    /\ sizeOf(u) \in 1..MaxBytes

\* ImageValidationPipe.transform: the first parameter must be base64, more may follow.
pipeAccepts(u) ==
    /\ HeaderLength + textLength(u) <= StringLimit
    /\ u.prefix = "data:image/"
    /\ u.comma
    /\ u.params # << >> /\ u.params[1] = "base64"
    /\ u.mime \in Allowed
    /\ textLength(u) > 0 /\ isBase64(u)
    /\ sizeOf(u) \in 1..MaxBytes

\* The order in which create() runs the pipe over the fields.
pipeOrder == <<"reference", "studentResponse", "template">>

\* parseDataUri of ImagePrompt: ^data:(image/token);base64,(.*)$
uriMatches(u) ==
    /\ u.prefix = "data:image/"
    /\ u.mime \in Tokens
    /\ u.params = <<"base64">> /\ u.comma
    /\ u.dirt # "newline"

\* ImageContentPartSchema, with its own computation of the decoded length.
schemaAccepts(u) ==
    /\ u.mime \in Tokens
    /\ textLength(u) # 0 /\ textLength(u) % 4 = 0
    /\ u.dirt = "none" /\ u.chars > 0 /\ u.pad <= 2
    /\ (textLength(u) \div 4) * 3 - u.pad <= MaxBytes

\* The order of the images in the payload, and of the labels before them.
imageOrder == <<"reference", "template", "studentResponse">>
labels == <<"Reference Task", "Template", "Student Submission">>

-----------------------------------------------------------------------------
Init ==
    /\ body \in Bodies
    /\ pc = 1
    /\ parts = << >>
    /\ outcome = None

Finish(end) == outcome' = end /\ pc' = 0

\* create() awaits the pipe for the next field; after the last one it goes on.
Validate ==
    /\ pc \in 1..3
    /\ IF pipeAccepts(body[pipeOrder[pc]])
       THEN pc' = pc + 1 /\ UNCHANGED outcome
       ELSE Finish("BadRequest")
    /\ UNCHANGED <<body, parts>>

\* The prompt factory reads the system template, which may fail.
LoadTemplate ==
    /\ pc = 4
    /\ \/ pc' = 5 /\ UNCHANGED outcome
       \/ Finish("TemplateError")
    /\ UNCHANGED <<body, parts>>

\* buildMessage: the parts are assembled, or a field is no data URI, and the
\* payload schema examines them.
Build ==
    LET images == {body[f] : f \in Fields}
    IN  /\ pc = 5
        /\ IF \A u \in images : uriMatches(u)
           THEN /\ parts' = [i \in 1..3 |-> [label |-> labels[i], image |-> body[imageOrder[i]]]]
                /\ IF \A u \in images : schemaAccepts(u)
                   THEN Finish("payload")
                   ELSE Finish("ZodError")
           ELSE Finish("BadRequest") /\ UNCHANGED parts
        /\ UNCHANGED body

Next == Validate \/ LoadTemplate \/ Build

Spec == Init /\ [][Next]_vars

-----------------------------------------------------------------------------
TypeOK ==
    /\ body \in [Fields -> DataUri]
    /\ pc \in 0..5
    /\ parts \in Seq([label : {"Reference Task", "Template", "Student Submission"},
                      image : DataUri])
    /\ outcome \in Ends \cup {None}

\* A request whose images pass the pipe never fails in the payload schema: the
\* client's mistakes are all answered with 400, at every size and padding.
NoImageIsAServerError == outcome # "ZodError"

\* Whatever leaves in a payload was allowed by the configuration, is no larger
\* than the limit, and is one whole base64 text: no field skips its validation.
OnlyValidatedImagesLeave ==
    outcome = "payload" =>
        \A f \in Fields :
            /\ body[f].mime \in Allowed
            /\ body[f].dirt = "none"
            /\ sizeOf(body[f]) \in 1..MaxBytes

\* Each label of the payload stands before the image of its own field.
LabelsNameTheirImages ==
    outcome = "payload" =>
        /\ Len(parts) = 3
        /\ \A i \in 1..3 :
              parts[i].image = body[ CASE parts[i].label = "Reference Task" -> "reference"
                                       [] parts[i].label = "Template" -> "template"
                                       [] OTHER -> "studentResponse" ]

\* A well-formed request is not turned away: three images the pipe accepts, of a
\* token type and with no parameter but base64, become a payload unless the
\* template cannot be read.
GoodImagesAreSent ==
    (\A f \in Fields : pipeAccepts(body[f]) /\ body[f].mime \in Tokens /\ body[f].params = <<"base64">>)
        => outcome \in {None, "payload", "TemplateError"}

-----------------------------------------------------------------------------
\* Behind these: a request that got past the i-th run of the pipe has an image there
\* that the pipe accepts, and what it ends with follows from what it has got past.
ImageInv ==
    /\ TypeOK
    /\ pc # 0 => outcome = None /\ parts = << >>
    /\ \A i \in 1..3 : (pc > i \/ outcome \in {"payload", "ZodError", "TemplateError"}) =>
          pipeAccepts(body[pipeOrder[i]])
    /\ outcome \in {"payload", "ZodError"} =>
          \A f \in Fields : uriMatches(body[f])
    /\ outcome = "payload" =>
          parts = [i \in 1..3 |-> [label |-> labels[i], image |-> body[imageOrder[i]]]]
    /\ outcome = "ZodError" => \E f \in Fields : ~ schemaAccepts(body[f])
    /\ outcome = "BadRequest" =>
          \E f \in Fields : ~ pipeAccepts(body[f]) \/ ~ uriMatches(body[f])
================================================================================
