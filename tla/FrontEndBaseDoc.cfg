SPECIFICATION Spec
CONSTANTS
    UINT64_MAX = 1000
    ANTL_VERSION = 22
    Programs <- mc_Programs
    Texts <- mc_Texts
    Sources <- mc_BaseSources
    Units <- mc_Units
    LexToken <- lex_token
    ParseImport <- parse_import
    ParseItem <- parse_item
    ReadHeader <- read_header
    ReadTypes <- read_types
    ReadItems <- read_items
    ReadIr <- read_ir
    WordsOf <- TreeWords
INVARIANT DocsKept
CHECK_DEADLOCK FALSE
