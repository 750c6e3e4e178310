\* Two sessions, bodies of up to three lines of every kind, a Lambda URL
\* that joins: every accepted Write is answered as SessionListener says.
CONSTANTS
    Sessions = {s1, s2}
    MaxLines <- MCMaxLines
    JoinPathFails = FALSE
SPECIFICATION Spec
PROPERTY ImplementsSessionListener
