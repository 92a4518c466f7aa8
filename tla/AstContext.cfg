SPECIFICATION Spec
CONSTANTS Texts <- ThreeTexts
          NoText = "empty"
          Addresses <- FewAddresses
          MaxFiles = 3
          Nodes = 1
          FirstCapacity = 2
          NULL = NULL
          FREE = FREE
          CORRUPTED = CORRUPTED
INVARIANTS NamesForGood SourcesKept OwnedOnce
