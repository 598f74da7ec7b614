SPECIFICATION Spec
CONSTANTS
    None = None
    IMax = 100000
    Argvs <- TypedArgvs
    Platforms = {"linux"}
    Cpus <- MCCpus
    Uid <- Users
    Gid <- Users
    DirOf <- DirOfAll
    MtimeOf <- Mtimes
    BadGlobs = {"["}
    BadRegexes = {"(", "["}
    U32Max = 70000
INVARIANTS PatternsAsTyped
