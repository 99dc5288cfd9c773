---------------------------- MODULE MCCollaboration ----------------------------
(* One source that may be private, an admin, a signed-in reader and a stranger. *)
EXTENDS Collaboration, TLC

CONSTANTS s, admin, reader, stranger, nobody, c1, c2

Users == {admin, reader, stranger}
Account == {admin, reader}
Clients == {c1, c2}
Owners == [x \in {s} |-> admin]
SlugsUsed == {"w", "x", "y"}
OfSources == <<"source_types", "purposes">>
OfRecs == <<"purposes", "location_scopes">>
r1 == <<s, 1>>

Privacy == {[op |-> "saveSource", user |-> admin, source |-> s, privacy |-> p]
              : p \in {"private", "public"}}
Extraction == {[op |-> "extract", source |-> s]}

Access ==
    {[op |-> "open", user |-> u, source |-> s] : u \in {reader, stranger}}
    \cup {[op |-> "ask", user |-> reader, source |-> s],
          [op |-> "withdraw", user |-> reader, id |-> 1]}
    \cup {[op |-> o, user |-> admin, id |-> 1] : o \in {"approve", "reject"}}
    \cup Privacy

Linking ==
    {[op |-> "file", user |-> u, source |-> s] : u \in Users}
    \cup {[op |-> "edit", user |-> u, source |-> s] : u \in {reader, stranger}}
    \cup {[op |-> "ask", user |-> reader, source |-> s],
          [op |-> "approve", user |-> admin, id |-> 1], [op |-> "close", user |-> admin]}
    \cup Privacy

Closing ==
    {[op |-> "ask", user |-> reader, source |-> s], [op |-> "list", user |-> reader],
     [op |-> "list", user |-> admin], [op |-> "approve", user |-> admin, id |-> 1],
     [op |-> "close", user |-> admin], [op |-> "close", user |-> reader]}

Reading ==
    {[op |-> "index", user |-> reader], [op |-> "openRec", user |-> reader, rec |-> r1],
     [op |-> "status", user |-> reader, rec |-> r1, status |-> "done"],
     [op |-> "progress", user |-> reader, rec |-> r1]}
    \cup Privacy \cup Extraction

Saving ==
    {[op |-> "saveRec", user |-> u, rec |-> r1, slug |-> x, tagged |-> t]
        : u \in {admin, reader}, x \in {"x", Absent}, t \in BOOLEAN}
    \cup {[op |-> "mergeScale", user |-> u, from |-> <<"x", 1>>, to |-> <<"y", 1>>]
            : u \in {admin, reader}}
    \cup {[op |-> "mergeScale", user |-> admin, from |-> <<"x", 1>>, to |-> <<"x", 1>>],
          [op |-> "mergeScale", user |-> admin, from |-> <<"w", 1>>, to |-> <<"x", 1>>]}
    \cup Extraction

Editing ==
    {[op |-> "saveSource", user |-> u, source |-> s, privacy |-> p]
        : u \in {admin, reader}, p \in {"private", Absent}}
    \cup Extraction

AllMixes == {Access, Linking, Closing, Reading, Saving, Editing}

ClientSymmetry == Permutations(Clients)
===============================================================================
