-------------------------- MODULE MCPreviewRounds --------------------------
EXTENDS RoundExercises

\* The specs of SPECS: one and two forms, with and without fresh keys, a stable
\* wording, a server that fails; and, more than the limit, three forms.
MCSpecs ==
    [fresh : BOOLEAN, drift : {TRUE}, error : {FALSE}, rounds : 1 .. MaxForms]
    \cup {Spec1(FALSE, FALSE, FALSE, 1), Spec1(FALSE, TRUE, TRUE, 1)}

\* The keys of every form, and one that no form of the probe has.
MCKeys == (0 .. MaxAborts + 1) \X (0 .. MaxForms)

\* An accepted form, one whose note differs, a decline and a cancel, under any
\* key.
MCResumes ==
    {Sole(k, "accept", c) : k \in MCKeys, c \in YesContents}
    \cup {Sole(k, a, "none") : k \in MCKeys, a \in {"decline", "cancel"}}
=============================================================================
