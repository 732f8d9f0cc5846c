---------------------------- MODULE MCOrderedGroup ----------------------------
\* OrderedGroup over every schema of three models, each of them in the data
\* set or not: the smallest with a chain, a circle and a group that waits for
\* two others.
EXTENDS OrderedGroup

CONSTANTS user, profile, note

ThreeModels == {user, profile, note}
===============================================================================
