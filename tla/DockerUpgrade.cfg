SPECIFICATION DockerSpec
CONSTANTS
    Upgraders = {u1, u2}
    Main = main
    Backups = {b1, b2}
    MaxIds = 3
    Flaky = TRUE
SYMMETRY MCSymmetry
INVARIANTS GoodKept
PROPERTIES AnswersTrue
